---- MODULE Spec2Model ----
(***************************************************************************)
(* Alert retrieval pipeline of backend/es_integration: the decision chain  *)
(* of AlertService.list_alerts_for_tenant (cache / live / static), the     *)
(* cache upsert that follows a live fetch, and the entry part of           *)
(* AlertService.aggregate_dashboard.                                       *)
(*                                                                         *)
(* The Alert table (`rows`) is the state.  One request is one action: the  *)
(* handler runs to completion and leaves its result in `resp`; Deliver     *)
(* hands the response to the caller and frees the request slot.            *)
(* Everything the handler cannot control (database errors, probe answers,  *)
(* transport failures, the documents the source returns) is drawn          *)
(* nondeterministically.  `txns` holds the per-document transactions of    *)
(* requests that run at the same time (SpecConc).                          *)
(***************************************************************************)
EXTENDS Integers, Sequences, FiniteSets, TLC

VARIABLES rows, resp, txns

vars == <<rows, resp, txns>>

(* ------------------------------ bounds -------------------------------- *)
MaxRows == 2
MaxHits == 1
MaxMajor == 9
MaxDocs == 2
MaxRetries == 2
MaxSevs == 3
MaxSeverity == 100
MaxAlerts == 2
MaxProps == 3
MaxSleeps == 5
MaxTrendRows == 3

(* ------------------------------ domains ------------------------------- *)
Tenants == {"t1", "t2"}
AlertIds == {"a1"}
\* doc.get('alert_id') is None, '' or the key is missing: all are falsy
NoId == "none"
\* timestamp column NULL / doc timestamp absent or unparsable
NoTs == 0
Stamps == {NoTs}

\* a raw severity as a document carries it: null (or absent), a number, or
\* a string
NoSev == [kind |-> "null", n |-> 0, s |-> ""]
SevInt(n) == [kind |-> "int", n |-> n, s |-> ""]
SevStr(s) == [kind |-> "str", n |-> 0, s |-> s]
\* doc.get('message') is None or the key is missing
NoMsg == "none"

\* severities and messages of the documents the live source returns
HitSeverities == {SevStr("high")}
HitMessages == {NoMsg}

\* an Elasticsearch hit's _source, reduced to the fields the pipeline reads
Docs ==
  [alert_id : AlertIds \cup {NoId}, tenant_id : Tenants, timestamp : Stamps,
   severity : HitSeverities, message : HitMessages]

RECURSIVE SeqsUpTo(_, _)
SeqsUpTo(S, n) ==
  IF n = 0 THEN {<<>>}
  ELSE LET shorter == SeqsUpTo(S, n - 1)
       IN  shorter \cup {Append(s, x) : s \in {q \in shorter : Len(q) = n - 1}, x \in S}

\* the hit lists a search can return
HitLists == SeqsUpTo(Docs, MaxHits)

\* mock_alerts.json: an ordered list of alert-shaped records keyed by tenant
MockAlerts ==
  << [alert_id |-> "m1", tenant_id |-> "t1", timestamp |-> NoTs,
      severity |-> SevStr("critical"), message |-> "login failed"],
     [alert_id |-> "m2", tenant_id |-> "tx", timestamp |-> NoTs,
      severity |-> NoSev, message |-> NoMsg],
     [alert_id |-> "m3", tenant_id |-> "t1", timestamp |-> NoTs,
      severity |-> SevInt(12), message |-> "port scan"] >>

load_mock_alerts == MockAlerts

\* the tenant filter left out
MockForAnyTenant(t) == load_mock_alerts

\* [a for a in alerts if a['tenant_id'] == tenant_id]
MockFor(t) == SelectSeq(load_mock_alerts, LAMBDA a : a.tenant_id = t)

(* --------------------------- configuration ---------------------------- *)
\* ESIntegrationConfig row of a tenant; exists = FALSE is "no row"
NoCfg == [exists |-> FALSE, enabled |-> FALSE, hosts |-> FALSE]
Configs ==
  {NoCfg} \cup [exists : {TRUE}, enabled : BOOLEAN, hosts : BOOLEAN]

\* cfg.hosts_list() is non-empty
hosts_list(cfg) == cfg.hosts

(* ----------------------------- CacheStore ----------------------------- *)
\* datetime.fromisoformat on the raw value: a positive raw value stands for
\* a well-formed ISO string, NoTs for an absent one, a negative one for a
\* string that does not parse
parse_es_timestamp(v) == IF v > NoTs THEN v ELSE NoTs

\* str(n) / int(s) for the numbers the model uses
NumStrings ==
  << <<"-1", -1>>, <<"0", 0>>, <<"5", 5>>, <<"6", 6>>, <<"8", 8>>, <<"9", 9>>,
     <<"11", 11>>, <<"12", 12>>, <<"15", 15>>, <<"16", 16>>, <<"39", 39>>,
     <<"40", 40>>, <<"69", 69>>, <<"70", 70>>, <<"89", 89>>, <<"90", 90>>,
     <<"100", 100>> >>
IntToStr(n) == NumStrings[CHOOSE i \in 1..Len(NumStrings) : NumStrings[i][2] = n][1]
IsIntString(s) == \E i \in 1..Len(NumStrings) : NumStrings[i][1] = s
StrToInt(s) == NumStrings[CHOOSE i \in 1..Len(NumStrings) : NumStrings[i][1] = s][2]

\* severity is a CharField: a number is stored as its decimal string
db_severity(raw) ==
  IF raw.kind = "int" THEN SevStr(IntToStr(raw.n)) ELSE raw

\* the column values written for one document (`defaults` plus alert_id)
RowOf(doc) ==
  [alert_id |-> doc.alert_id,
   tenant_id |-> doc.tenant_id,
   timestamp |-> parse_es_timestamp(doc.timestamp),
   severity |-> db_severity(doc.severity),
   message |-> doc.message]

\* the ES-like dict the frontend gets for a cached row
serialize_alert_row(row) ==
  [alert_id |-> row.alert_id,
   tenant_id |-> row.tenant_id,
   timestamp |-> row.timestamp,
   severity |-> row.severity,
   message |-> row.message]

SetMax(S) == CHOOSE x \in S : \A y \in S : y <= x

\* the overwrite as a merge: a field the document lacks keeps its old value
UpsertOne_Merge(tbl, doc) ==
  IF doc.alert_id # NoId
  THEN LET existing == {i \in 1..Len(tbl) : tbl[i].alert_id = doc.alert_id}
           old == tbl[CHOOSE i \in existing : \A j \in existing : j <= i]
       IN  IF existing # {}
           THEN [tbl EXCEPT ![CHOOSE i \in existing : \A j \in existing : j <= i] =
                   [RowOf(doc) EXCEPT !.message =
                      IF doc.message = NoMsg THEN old.message ELSE doc.message]]
           ELSE Append(tbl, RowOf(doc))
  ELSE Append(tbl, [RowOf(doc) EXCEPT !.alert_id = NoId])

\* lines 108-118: overwrite the newest row carrying the same alert_id (any
\* tenant), else insert; without an alert_id always insert
PutRow(tbl, row) ==
  IF row.alert_id # NoId
  THEN LET existing == {i \in 1..Len(tbl) : tbl[i].alert_id = row.alert_id}
       IN  IF existing # {}
           THEN [tbl EXCEPT ![SetMax(existing)] = row]
           ELSE Append(tbl, row)
  ELSE Append(tbl, [row EXCEPT !.alert_id = NoId])

\* a document without an alert_id written over the newest row without one
UpsertOne_MergeNull(tbl, doc) ==
  LET existing == {i \in 1..Len(tbl) : tbl[i].alert_id = doc.alert_id}
  IN  IF existing # {}
      THEN [tbl EXCEPT ![SetMax(existing)] = RowOf(doc)]
      ELSE Append(tbl, RowOf(doc))

\* one document inside its own transaction.atomic()
UpsertOne(tbl, doc) == PutRow(tbl, RowOf(doc))

\* _upsert_docs_to_db: documents in order; the transaction of document i
\* raises for i \in failed, which is logged and swallowed
RECURSIVE UpsertFrom(_, _, _, _)
UpsertFrom(tbl, docs, failed, i) ==
  IF i > Len(docs) THEN tbl
  ELSE UpsertFrom(IF i \in failed THEN tbl ELSE UpsertOne(tbl, docs[i]),
                  docs, failed, i + 1)

upsert_docs_to_db(tbl, docs, failed) == UpsertFrom(tbl, docs, failed, 1)

\* rows of one tenant, by row id
TenantRows(tbl, t) == {i \in 1..Len(tbl) : tbl[i].tenant_id = t}

\* ORDER BY timestamp DESC (PostgreSQL: NULLs first); ties in any order
TsDescOk(a, b) == a = NoTs \/ (b # NoTs /\ a >= b)

\* [:100]
CacheLimit == 100

Min2(a, b) == IF a <= b THEN a ELSE b

\* Alert.objects.filter(tenant_id=t).order_by('-timestamp')[:100], serialized:
\* every result list the database may produce
ReadRecent(tbl, t) ==
  LET ids == TenantRows(tbl, t)
      n   == Cardinality(ids)
      k   == Min2(n, CacheLimit)
      orders == {o \in [1..n -> ids] :
                   /\ \A i, j \in 1..n : i # j => o[i] # o[j]
                   /\ \A i, j \in 1..n :
                        i < j => TsDescOk(tbl[o[i]].timestamp, tbl[o[j]].timestamp)}
  IN  {[i \in 1..k |-> serialize_alert_row(tbl[o[i]])] : o \in orders}

(* ------------------------- SourceVersionProbe ------------------------- *)
\* no version known: the probe failed, or the client exposes no __version__
NoVer == 0
DefaultServerMajor == 8

\* major versions a server or a client library can have
Majors == 1..MaxMajor
\* what GET <host>/ yields: NoVer for unreachable / timeout / malformed body
ServerAnswers == {NoVer} \cup Majors
\* elasticsearch.__version__[0] of the installed client, NoVer if unknown
ClientMajors == {NoVer} \cup Majors
\* the `Elasticsearch` global: None when the import failed
ClientLibs ==
  {[present |-> FALSE, major |-> NoVer]} \cup [present : {TRUE}, major : ClientMajors]

detect_es_major_version(answer) ==
  IF answer # NoVer THEN answer ELSE DefaultServerMajor

detect_python_es_client_major_version(lib) == lib.major

\* HTTP preferred also when the client is as new as the server
PreferHttp_NotOlder(server_major, client_major) ==
  server_major # 0 /\ client_major # NoVer /\ client_major >= server_major

\* server_major and client_major and client_major > server_major
PreferHttp(server_major, client_major) ==
  server_major # 0 /\ client_major # NoVer /\ client_major > server_major

(* ----------------------------- SchemaProbe ---------------------------- *)
NoField == "none"
TsCandidates == <<"timestamp", "@timestamp", "time", "event_time">>

\* body of GET <host>/<index>/_mapping: the properties in document order.
\* wellformed = FALSE is a JSON object whose values are not objects.
Prop(n, ty, kw) == [name |-> n, type |-> ty, keyword |-> kw]
MapBodies ==
  { [wellformed |-> FALSE, props |-> <<>>],
    [wellformed |-> TRUE,  props |-> <<>>],
    [wellformed |-> TRUE,  props |-> <<Prop("timestamp", "date", FALSE)>>],
    [wellformed |-> TRUE,  props |-> <<Prop("@timestamp", "text", TRUE),
                                       Prop("timestamp", "date", FALSE)>>] }

\* first candidate whose quoted name occurs in the dumped mapping
detect_timestamp_field(has_hosts, failed, body) ==
  IF ~has_hosts \/ failed THEN NoField
  ELSE LET names == {body.props[i].name : i \in 1..Len(body.props)}
           found == {i \in 1..Len(TsCandidates) : TsCandidates[i] \in names}
       IN  IF found = {} THEN NoField
           ELSE TsCandidates[CHOOSE i \in found : \A j \in found : i <= j]

\* search_properties: the first property, in mapping order, that is a
\* candidate and is a date or has a keyword sub-field
RECURSIVE search_properties(_, _)
search_properties(props, i) ==
  IF i > Len(props) THEN NoField
  ELSE LET m == props[i]
           isCand == \E c \in 1..Len(TsCandidates) : TsCandidates[c] = m.name
       IN  IF isCand /\ m.type = "date" THEN m.name
           ELSE IF isCand /\ m.keyword THEN m.name \o ".keyword"
           ELSE search_properties(props, i + 1)

\* [raised, field]: the walk over the body is outside any try
resolve_timestamp_sort_field(has_hosts, detected, failed, body) ==
  IF ~has_hosts \/ failed THEN [raised |-> FALSE, field |-> NoField]
  ELSE IF ~body.wellformed THEN [raised |-> TRUE, field |-> NoField]
  ELSE [raised |-> FALSE, field |-> search_properties(body.props, 1)]

(* ------------------------ RetrievalOrchestrator ----------------------- *)
\* What one call of list_alerts_for_tenant did and returned:
\*   raised  an exception left the function
\*   alerts, source   the returned pair ('db', 'es', 'es-http', 'mock')
\*   calls   kinds of request sent to the live source
\*   cache   the Alert read: "notread", "ok" or "failed"
\*   cfg     the ESIntegrationConfig the call saw (NoCfg: none, or read failed)
\*   native, http   how each transport ended
\*   sort    the sort field put in the query body
\*   fetched the hit list a transport handed back (<<>> if none did)
\*   upsert  _upsert_docs_to_db was called; wfail = documents whose write raised
\*   tbl     the Alert table afterwards
\*   ver     what the version probes decided (VerClass)
Outcome(raised, alerts, source, calls, cache, cfg, native, http, sort, fetched, upsert, wfail, tbl, ver) ==
  [raised |-> raised, alerts |-> alerts, source |-> source, calls |-> calls,
   cache |-> cache, cfg |-> cfg, native |-> native, http |-> http,
   sort |-> sort, fetched |-> fetched, upsert |-> upsert, wfail |-> wfail,
   tbl |-> tbl, ver |-> ver]

\* the version probes as one call saw them:
\*   probed        hosts is non-empty, so lines 508-522 ran
\*   answer        what GET <host>/ yielded (NoVer: the detection failed)
\*   server_major  the value _detect_es_major_version returned
\*   present       the `Elasticsearch` global is set (line 531)
\*   client_major  the value _detect_python_es_client_major_version returned
Probe(probed, answer, present, lib) ==
  [probed |-> probed, answer |-> answer,
   server_major |-> IF probed THEN detect_es_major_version(answer) ELSE NoVer,
   present |-> present,
   client_major |-> IF probed THEN detect_python_es_client_major_version(lib)
                    ELSE NoVer,
   prefer_http |-> probed /\ PreferHttp(detect_es_major_version(answer),
                                        detect_python_es_client_major_version(lib))]

\* the part of a probe result the rest of the call depends on
VerClass(p) ==
  [probed |-> p.probed, present |-> p.present, prefer_http |-> p.prefer_http]

\* the call never reached line 498
NoProbe ==
  VerClass(Probe(FALSE, NoVer, FALSE, [present |-> FALSE, major |-> NoVer]))

\* lines 531 and 549: the transport the call attempts first
FirstTransport(ver) ==
  IF ver.present /\ ~ver.prefer_http THEN "native" ELSE "http"

\* "size": 100 of the query body
QuerySize == 100

\* lines 535-537 and 551-553: the body both transports send; the sort clause
\* is present only for a resolved sort field
SearchBody(t, sort) ==
  [size |-> QuerySize, tenant_id |-> t,
   sort |-> IF sort # NoField THEN <<[field |-> sort, order |-> "desc"]>> ELSE <<>>]

\* lines 465-467 and 565-566
MockOutcome(tbl, t, calls, cache, cfg, native, http, sort, ver) ==
  Outcome(FALSE, MockFor(t), "mock", calls, cache, cfg, native, http, sort,
          <<>>, FALSE, {}, tbl, ver)

\* an exception propagating out of list_alerts_for_tenant
RaisedOutcome(tbl, calls, cache, cfg, ver) ==
  Outcome(TRUE, <<>>, "exception", calls, cache, cfg, "notried", "notried",
          NoField, <<>>, FALSE, {}, tbl, ver)

\* the upsert's failure not swallowed
FetchedOutcomes_Strict(tbl, hits, source, calls, cache, cfg, native, http, sort, ver) ==
  { IF failed = {}
    THEN Outcome(FALSE, hits, source, calls, cache, cfg, native, http, sort, hits,
                 TRUE, failed, upsert_docs_to_db(tbl, hits, failed), ver)
    ELSE Outcome(TRUE, <<>>, "exception", calls, cache, cfg, native, http, sort,
                 hits, TRUE, failed, upsert_docs_to_db(tbl, hits, failed), ver)
      : failed \in SUBSET (1..Len(hits)) }

\* lines 541-545 and 557-561: best-effort upsert, then return the hits
FetchedOutcomes(tbl, hits, source, calls, cache, cfg, native, http, sort, ver) ==
  { Outcome(FALSE, hits, source, calls, cache, cfg, native, http, sort, hits,
            TRUE, failed, upsert_docs_to_db(tbl, hits, failed), ver)
      : failed \in SUBSET (1..Len(hits)) }

\* lines 549-566: HTTP fallback, then the static set
HttpOutcomes(tbl, t, cfg, calls, cache, native, sort, ver) ==
  IF ~hosts_list(cfg)
  THEN {MockOutcome(tbl, t, calls, cache, cfg, native, "nohosts", sort, ver)}
  ELSE LET c2 == calls \cup {"http"}
       IN  {MockOutcome(tbl, t, c2, cache, cfg, native, "failed", sort, ver),
            MockOutcome(tbl, t, c2, cache, cfg, native, "empty", sort, ver)}
           \cup UNION { FetchedOutcomes(tbl, hits, "es-http", c2, cache, cfg,
                                        native, "ok", sort, ver)
                          : hits \in HitLists \ {<<>>} }

\* lines 530-548: the python client, when importable and not overridden
NativeOutcomes(tbl, t, cfg, ver, calls, cache, sort) ==
  IF FirstTransport(ver) = "native"
  THEN LET c2 == IF hosts_list(cfg) THEN calls \cup {"version"} ELSE calls
           c3 == c2 \cup {"native"}
       IN  \* _build_es_client returned None
           HttpOutcomes(tbl, t, cfg, c2, cache, "nobuild", sort, ver)
           \* es.search raised
           \cup HttpOutcomes(tbl, t, cfg, c3, cache, "raised", sort, ver)
           \* es.search answered
           \cup UNION { FetchedOutcomes(tbl, hits, "es", c3, cache, cfg, "ok",
                                        "notried", sort, ver)
                          : hits \in HitLists }
  ELSE HttpOutcomes(tbl, t, cfg, calls, cache, "notried", sort, ver)

\* lines 500-522: every decision the probes can lead to; without hosts no
\* probe runs
VersionDecisions(h) ==
  IF h
  THEN {VerClass(Probe(TRUE, answer, lib.present, lib))
          : answer \in ServerAnswers, lib \in ClientLibs}
  ELSE {VerClass(Probe(FALSE, NoVer, lib.present, lib)) : lib \in ClientLibs}

\* lines 524-528: every result of the two mapping requests
SortDecisions(h) ==
  { resolve_timestamp_sort_field(h, detect_timestamp_field(h, f1, body), f2, body)
      : f1 \in BOOLEAN, f2 \in BOOLEAN, body \in MapBodies }

\* lines 498-566 for a config that passed `cfg and (cfg.enabled or force_es)`
LiveOutcomes(tbl, t, cfg, cache) ==
  LET h == hosts_list(cfg)
      c1 == IF h THEN {"version"} ELSE {}
      c2 == IF h THEN c1 \cup {"mapping"} ELSE c1
  IN  UNION { IF resolved.raised
              THEN {RaisedOutcome(tbl, c2, cache, cfg, v)}
              ELSE NativeOutcomes(tbl, t, cfg, v, c2, cache, resolved.field)
                : v \in VersionDecisions(h), resolved \in SortDecisions(h) }

\* force_es not taken into account
LiveAllowed_EnabledOnly(cfg, force_es) == cfg.exists /\ cfg.enabled

\* `if cfg and (cfg.enabled or force_es)`
LiveAllowed(cfg, force_es) == cfg.exists /\ (cfg.enabled \/ force_es)

\* lines 492-566: config lookup (a failed lookup is cfg = None), live, static
AfterCache(tbl, t, stored, force_es, cache) ==
  UNION { IF LiveAllowed(cfg, force_es)
          THEN LiveOutcomes(tbl, t, cfg, cache)
          ELSE {MockOutcome(tbl, t, {}, cache, cfg, "notried", "notried", NoField,
                            NoProbe)}
            : cfg \in {stored, NoCfg} }

\* a result read from the Alert table
CacheOutcome(tbl, alerts, cache) ==
  Outcome(FALSE, alerts, "db", {}, cache, NoCfg, "notried", "notried", NoField,
          <<>>, FALSE, {}, tbl, NoProbe)

\* lines 465-467: force_mock
StaticBranch(tbl, t) ==
  {MockOutcome(tbl, t, {}, "notread", NoCfg, "notried", "notried", NoField,
               NoProbe)}

\* the static records returned, tagged 'db', when the read raises
ForceDbBranch_StaticOnFailure(tbl, t) ==
  {CacheOutcome(tbl, cached, "ok") : cached \in ReadRecent(tbl, t)}
  \cup {CacheOutcome(tbl, MockFor(t), "failed")}

\* lines 469-479: force_db returns the cached rows, or [] when the read raises
ForceDbBranch(tbl, t) ==
  {CacheOutcome(tbl, cached, "ok") : cached \in ReadRecent(tbl, t)}
  \cup {CacheOutcome(tbl, <<>>, "failed")}

\* the cached rows used only when no live fetch is possible
DefaultBranch_LiveWhenEnabled(tbl, t, stored, force_es) ==
  IF ~force_es
  THEN (IF LiveAllowed(stored, force_es) THEN {}
        ELSE {CacheOutcome(tbl, cached, "ok")
                : cached \in ReadRecent(tbl, t) \ {<<>>}})
       \cup (IF <<>> \in ReadRecent(tbl, t) \/ LiveAllowed(stored, force_es)
             THEN AfterCache(tbl, t, stored, force_es, "ok") ELSE {})
       \cup AfterCache(tbl, t, stored, force_es, "failed")
  ELSE AfterCache(tbl, t, stored, force_es, "notread")

\* lines 481-566: cache first unless force_es; an empty or failed read goes on
DefaultBranch(tbl, t, stored, force_es) ==
  IF ~force_es
  THEN {CacheOutcome(tbl, cached, "ok") : cached \in ReadRecent(tbl, t) \ {<<>>}}
       \cup (IF <<>> \in ReadRecent(tbl, t)
             THEN AfterCache(tbl, t, stored, force_es, "ok") ELSE {})
       \cup AfterCache(tbl, t, stored, force_es, "failed")
  ELSE AfterCache(tbl, t, stored, force_es, "notread")

\* the force_db test left out
list_alerts_without_force_db(tbl, t, stored, force_es, force_mock, force_db) ==
  IF force_mock THEN StaticBranch(tbl, t)
  ELSE DefaultBranch(tbl, t, stored, force_es)

\* force_db tested before force_mock
list_alerts_db_before_mock(tbl, t, stored, force_es, force_mock, force_db) ==
  IF force_db THEN ForceDbBranch(tbl, t)
  ELSE IF force_mock THEN StaticBranch(tbl, t)
  ELSE DefaultBranch(tbl, t, stored, force_es)

\* every outcome of list_alerts_for_tenant(t, force_es, force_mock, force_db)
list_alerts_for_tenant(tbl, t, stored, force_es, force_mock, force_db) ==
  IF force_mock THEN StaticBranch(tbl, t)
  ELSE IF force_db THEN ForceDbBranch(tbl, t)
  ELSE DefaultBranch(tbl, t, stored, force_es)

(* -------------------------- AggregationEngine ------------------------- *)
\* _get_source_field_value: field.split('.') on ts_field = None raises;
\* otherwise doc.get(base), and the documents carry no key but 'timestamp'
get_source_field_value(doc, field) ==
  [raised |-> field = NoField,
   value  |-> IF field = "timestamp" THEN doc.timestamp ELSE NoTs]

\* the bucket an alert is counted under: 'unknown' for None, the truncated
\* instant for a parsed value, the raw prefix for a string that does not parse
UnknownKey == NoTs
HourKey(raw) == IF raw = NoTs THEN UnknownKey ELSE raw

\* lines 587-593: every (ts_field, request sent) the second config lookup and
\* _detect_timestamp_field can give.  A failed lookup gives 'timestamp', no
\* config leaves ts_field = None.
TsFieldDecisions(stored) ==
  {[ts_field |-> "timestamp", calls |-> {}]}
  \cup (IF ~stored.exists
        THEN {[ts_field |-> NoField, calls |-> {}]}
        ELSE { LET d == detect_timestamp_field(hosts_list(stored), f, body)
               IN  [ts_field |-> IF d = NoField THEN "timestamp" ELSE d,
                    calls |-> IF hosts_list(stored) THEN {"mapping"} ELSE {}]
                 : f \in BOOLEAN, body \in MapBodies })

\* lines 595-623: timeline[hour] counts
Timeline(alerts, ts_field) ==
  LET keyOf(i) == HourKey(get_source_field_value(alerts[i], ts_field).value)
      keys == {keyOf(i) : i \in 1..Len(alerts)}
  IN  [k \in keys |-> Cardinality({i \in 1..Len(alerts) : keyOf(i) = k})]

\* lines 595-634: the loop raises at the first alert when ts_field is None
LoopRaises(alerts, ts_field) ==
  \E i \in 1..Len(alerts) : get_source_field_value(alerts[i], ts_field).raised

\* str.strip() and str.lower() on the strings of the model; every other
\* string of the model is its own image
StripTable == << <<" 12 ", "12">>, <<" Info ", "Info">> >>
LowerTable == << <<"CRITICAL", "critical">>, <<"Warn", "warn">>, <<"Info", "info">> >>
TableGet(tab, s) ==
  IF \E i \in 1..Len(tab) : tab[i][1] = s
  THEN tab[CHOOSE i \in 1..Len(tab) : tab[i][1] = s][2]
  ELSE s
Strip(s) == TableGet(StripTable, s)
Lower(s) == TableGet(LowerTable, s)

\* the vocabularies of _severity_to_tier
VocabCritical == {"critical", "crtical", "crit", "fatal", "emergency", "emerg", "panic"}
VocabHigh == {"high", "error", "err", "severe"}
VocabMedium == {"warning", "warn", "medium", "med", "moderate"}
VocabLow == {"info", "informational", "notice", "low", "debug"}

NoNum == [some |-> FALSE, n |-> 0]
SomeNum(n) == [some |-> TRUE, n |-> n]

\* lines 694-704: the number a raw severity is read as, if any
severity_number(raw) ==
  IF raw.kind = "int" THEN SomeNum(raw.n)
  ELSE IF IsIntString(Strip(raw.s)) THEN SomeNum(StrToInt(Strip(raw.s)))
  ELSE NoNum

\* the 0-15 scale entered one level late
severity_to_tier_Late(raw) ==
  IF raw = NoSev THEN "unknown"
  ELSE LET num == severity_number(raw)
           n == num.n
           s == Lower(Strip(raw.s))
       IN  IF num.some
           THEN IF n <= 15
                THEN (IF n > 12 THEN "critical" ELSE IF n > 9 THEN "high"
                      ELSE IF n > 6 THEN "medium" ELSE "low")
                ELSE (IF n >= 90 THEN "critical" ELSE IF n >= 70 THEN "high"
                      ELSE IF n >= 40 THEN "medium" ELSE "low")
           ELSE IF s \in VocabCritical THEN "critical"
           ELSE IF s \in VocabHigh THEN "high"
           ELSE IF s \in VocabMedium THEN "medium"
           ELSE IF s \in VocabLow THEN "low"
           ELSE "unknown"

\* the 0-15 scale taken to reach up to 50
severity_to_tier_WideScale(raw) ==
  IF raw = NoSev THEN "unknown"
  ELSE LET num == severity_number(raw)
           n == num.n
       IN  IF num.some
           THEN IF n <= 50
                THEN (IF n >= 12 THEN "critical" ELSE IF n >= 9 THEN "high"
                      ELSE IF n >= 6 THEN "medium" ELSE "low")
                ELSE (IF n >= 90 THEN "critical" ELSE IF n >= 70 THEN "high"
                      ELSE IF n >= 40 THEN "medium" ELSE "low")
           ELSE severity_to_tier_Late(raw)

\* lines 738-744: tier_weight
tier_weight ==
  [critical |-> 4, high |-> 3, medium |-> 2, low |-> 1, unknown |-> 0]

\* _severity_to_tier(raw)
severity_to_tier(raw) ==
  IF raw = NoSev THEN "unknown"
  ELSE LET num == severity_number(raw)
           n == num.n
           s == Lower(Strip(raw.s))
       IN  IF num.some
           THEN IF n <= 15
                THEN (IF n >= 12 THEN "critical" ELSE IF n >= 9 THEN "high"
                      ELSE IF n >= 6 THEN "medium" ELSE "low")
                ELSE (IF n >= 90 THEN "critical" ELSE IF n >= 70 THEN "high"
                      ELSE IF n >= 40 THEN "medium" ELSE "low")
           ELSE IF s \in VocabCritical THEN "critical"
           ELSE IF s \in VocabHigh THEN "high"
           ELSE IF s \in VocabMedium THEN "medium"
           ELSE IF s \in VocabLow THEN "low"
           ELSE "unknown"

\* lines 747-753: qs.values('severity').annotate(c=Count('id')) folded into
\* tiers; `sevs` are the severity column values of the rows of qs
severity_level_counts(sevs) ==
  LET tierOf(i) == severity_to_tier(sevs[i])
      keys == {tierOf(i) : i \in 1..Len(sevs)}
  IN  [k \in keys |-> Cardinality({i \in 1..Len(sevs) : tierOf(i) = k})]

\* what one call of aggregate_dashboard did and returned:
\*   raised   an exception left the function
\*   calls    requests sent to the live source by the whole call
\*   total, timeline, severity_distribution, source   the returned metrics
\*   n        len(alerts) of the resolved list
AggOutcome(raised, calls, ts_field, total, timeline, dist, o) ==
  [raised |-> raised, calls |-> calls, ts_field |-> ts_field, total |-> total,
   timeline |-> timeline, severity_distribution |-> dist,
   source |-> o.source, n |-> Len(o.alerts), list |-> o]

\* line 647: severity_level_counts_db = {}
NoCounts == [k \in {} |-> 0]

\* lines 657-861, one try block over the cache: how far it got before a
\* database error ended it (`except Exception` logs and goes on)
\*   failed  before total_alerts_db was assigned
\*   total   after the count, before the severity distribution
\*   all     the severity distribution was filled
DbStages == {"failed", "total", "all"}

\* the severity column of the rows of Alert.objects.filter(tenant_id=t)
TenantSeverities(tbl, t) ==
  LET q == SelectSeq(tbl, LAMBDA r : r.tenant_id = t)
  IN  [i \in 1..Len(q) |-> q[i].severity]

\* every outcome of aggregate_dashboard(t, force_es, force_mock, force_db)
aggregate_dashboard(tbl, t, stored, force_es, force_mock, force_db) ==
  UNION {
    IF o.raised
    THEN {AggOutcome(TRUE, o.calls, NoField, 0, <<>>, NoCounts, o)}
    ELSE UNION {
           IF LoopRaises(o.alerts, d.ts_field)
           THEN {AggOutcome(TRUE, o.calls \cup d.calls, d.ts_field, 0, <<>>, NoCounts, o)}
           ELSE { AggOutcome(FALSE, o.calls \cup d.calls, d.ts_field,
                             \* total_alerts_db if not None else len(alerts)
                             IF db # "failed" THEN Cardinality(TenantRows(o.tbl, t))
                                              ELSE Len(o.alerts),
                             Timeline(o.alerts, d.ts_field),
                             IF db = "all"
                             THEN severity_level_counts(TenantSeverities(o.tbl, t))
                             ELSE NoCounts,
                             o)
                    : db \in DbStages }
             : d \in TsFieldDecisions(stored) }
      : o \in list_alerts_for_tenant(tbl, t, stored, force_es, force_mock, force_db) }

(* ------------------------------ requests ------------------------------ *)
Idle == [op |-> "idle"]

\* the per-document transactions of two requests running at the same time
Workers == {"w1", "w2"}
NoTxn == [pc |-> "idle"]

Init ==
  /\ rows = <<>>
  /\ resp = Idle
  /\ txns = [w \in Workers |-> NoTxn]

\* AlertListView.get: ?mock= / ?force_es= / ?force_db= become the three flags.
\* `stored` is the tenant's ESIntegrationConfig row as the configuration
\* collaborator left it.  resp.had (rows of the tenant when the request came
\* in) and resp.changed (the table was modified) are observations.
AlertListView_get(t, stored, mock, force_es, force_db) ==
  /\ resp = Idle
  /\ \E o \in list_alerts_for_tenant(rows, t, stored, force_es, mock, force_db) :
       /\ Len(o.tbl) <= MaxRows
       /\ rows' = o.tbl
       /\ resp' = [op |-> "retrieve", tenant |-> t, stored |-> stored,
                   force_es |-> force_es, force_mock |-> mock,
                   force_db |-> force_db, out |-> o,
                   had |-> Cardinality(TenantRows(rows, t)),
                   changed |-> (o.tbl # rows)]
  /\ UNCHANGED txns

\* AlertDashboardView.get: an exception of aggregate_dashboard becomes a 500
AlertDashboardView_get(t, stored, mock, force_es, force_db) ==
  /\ resp = Idle
  /\ \E g \in aggregate_dashboard(rows, t, stored, force_es, mock, force_db) :
       /\ Len(g.list.tbl) <= MaxRows
       /\ rows' = g.list.tbl
       /\ resp' = [op |-> "aggregate", tenant |-> t, stored |-> stored,
                   force_es |-> force_es, force_mock |-> mock,
                   force_db |-> force_db, agg |-> g,
                   status |-> IF g.raised THEN 500 ELSE 200,
                   had |-> Cardinality(TenantRows(rows, t)),
                   changed |-> (g.list.tbl # rows)]
  /\ UNCHANGED txns

\* the response leaves the process; the request scope ends
Deliver ==
  /\ resp # Idle
  /\ resp' = Idle
  /\ UNCHANGED <<rows, txns>>

Next ==
  \/ \E t \in Tenants, stored \in Configs,
        m \in BOOLEAN, e \in BOOLEAN, d \in BOOLEAN :
       AlertListView_get(t, stored, m, e, d)
  \/ Deliver

Spec == Init /\ [][Next]_vars

\* the dashboard endpoint
NextDash ==
  \/ \E t \in Tenants, stored \in Configs,
        m \in BOOLEAN, e \in BOOLEAN, d \in BOOLEAN :
       AlertDashboardView_get(t, stored, m, e, d)
  \/ Deliver

SpecDash == Init /\ [][NextDash]_vars

(* --------------------------- upsert, directly ------------------------- *)
\* the documents handed to _upsert_docs_to_db: with or without an external
\* identifier, with or without a message
UpsertDocs ==
  [alert_id : AlertIds \cup {NoId}, tenant_id : {"t1"}, timestamp : Stamps,
   severity : HitSeverities, message : {NoMsg, "x"}]

\* _upsert_docs_to_db(docs): the whole call; `failed` are the documents whose
\* transaction raised
CacheStore_upsert(docs, failed) ==
  /\ resp = Idle
  /\ Len(upsert_docs_to_db(rows, docs, failed)) <= MaxRows
  /\ rows' = upsert_docs_to_db(rows, docs, failed)
  /\ resp' = [op |-> "upsert", docs |-> docs, failed |-> failed, before |-> rows]
  /\ UNCHANGED txns

NextUpsert ==
  \/ \E docs \in SeqsUpTo(UpsertDocs, MaxDocs) :
       \E failed \in SUBSET (1..Len(docs)) : CacheStore_upsert(docs, failed)
  \/ Deliver

SpecUpsert == Init /\ [][NextUpsert]_vars

(* ---------------------------- the cache read -------------------------- *)
\* documents with and without an event timestamp, upserted one at a time,
\* and retrieves answered from the Alert table
ReadDocs ==
  [alert_id : AlertIds \cup {NoId}, tenant_id : Tenants, timestamp : {NoTs, 1, 2},
   severity : HitSeverities, message : HitMessages]

NextRead ==
  \/ \E doc \in ReadDocs : CacheStore_upsert(<<doc>>, {})
  \/ \E t \in Tenants, e \in BOOLEAN, d \in BOOLEAN :
       AlertListView_get(t, NoCfg, FALSE, e, d)
  \/ Deliver

SpecRead == Init /\ [][NextRead]_vars

(* --------------------------- HTTP transport --------------------------- *)
\* ES_HTTP_RETRIES: unset, not an integer, or an integer
DefaultRetries == 2
RetryEnvs ==
  {[kind |-> "unset", n |-> 0], [kind |-> "invalid", n |-> 0]}
  \cup [kind : {"int"}, n : (0 - 1)..MaxRetries]

\* int(os.getenv('ES_HTTP_RETRIES', '2')), 2 when that raises
RetriesOf(env) == IF env.kind = "int" THEN env.n ELSE DefaultRetries

\* how one POST <host>/<index>/_search ends:
\*   ok       a 2xx response with a hits body
\*   timeout  requests.Timeout
\*   httperr  raise_for_status() raised requests.HTTPError (4xx/5xx)
\*   neterr   a network-level requests.RequestException (connection refused,
\*            reset, DNS, TLS)
\*   badjson  a 2xx response whose body resp.json() cannot decode
\*   other    an exception outside the requests family (e.g. a JSON body
\*            that is not an object)
OneHit == [alert_id |-> "a1", tenant_id |-> "t1", timestamp |-> NoTs,
           severity |-> SevStr("high"), message |-> NoMsg]
Responses ==
  [kind : {"timeout", "httperr", "neterr", "badjson", "other"}, hits : {<<>>}]
  \cup [kind : {"ok"}, hits : {<<>>, <<OneHit>>}]

\* what the source answers to the 1st, 2nd, ... request of one search
ScriptLen == IF MaxRetries > DefaultRetries THEN MaxRetries + 1 ELSE DefaultRetries + 1
Scripts == [1..ScriptLen -> Responses]

\* What resp.json() raises on an undecodable body depends on the installed
\* requests, which the repository does not pin: requests.JSONDecodeError, a
\* RequestException (caught at line 245), or a plain ValueError (not caught).
JsonErrorBuilds == BOOLEAN

\* the except clause an attempt's ending falls into
Caught(r, jsonIsRequestException) ==
  IF r.kind = "badjson"
  THEN (IF jsonIsRequestException THEN "RequestException" ELSE "uncaught")
  ELSE IF r.kind = "timeout" THEN "Timeout"
  ELSE IF r.kind = "httperr" THEN "HTTPError"
  ELSE IF r.kind = "neterr" THEN "RequestException"
  ELSE IF r.kind = "other" THEN "uncaught"
  ELSE "none"

\* min(0.5 * (attempt + 1), 2.0) seconds, in half seconds
BackoffCap == 4

\* the backoff without its cap
Backoff_Uncapped(attempt) == attempt + 1

Backoff(attempt) == Min2(attempt + 1, BackoffCap)

HttpResult(requests, hits, raised, sleeps, retries) ==
  [requests |-> requests, hits |-> hits, raised |-> raised, sleeps |-> sleeps,
   retries |-> retries]

\* lines 213-255: the loop from `attempt` on
RECURSIVE HttpAttempts(_, _, _, _, _)
HttpAttempts(retries, script, attempt, sleeps, jre) ==
  IF attempt > retries THEN HttpResult(attempt, <<>>, FALSE, sleeps, retries)
  ELSE LET r == script[attempt + 1]
           c == Caught(r, jre)
       IN  IF c = "none"
           THEN HttpResult(attempt + 1, r.hits, FALSE, sleeps, retries)
           ELSE IF c = "HTTPError"
           THEN HttpResult(attempt + 1, <<>>, FALSE, sleeps, retries)
           ELSE IF c = "uncaught"
           THEN HttpResult(attempt + 1, <<>>, TRUE, sleeps, retries)
           ELSE HttpAttempts(retries, script, attempt + 1,
                  IF attempt < retries THEN Append(sleeps, Backoff(attempt))
                  ELSE sleeps, jre)

\* _http_search(cfg, body)
http_search(cfg, env, script, jre) ==
  IF ~hosts_list(cfg) THEN HttpResult(0, <<>>, FALSE, <<>>, RetriesOf(env))
  ELSE HttpAttempts(RetriesOf(env), script, 0, <<>>, jre)

\* one call of _http_search against a source that answers by `script`
HttpSearch(cfg, env, script, jre) ==
  /\ resp = Idle
  /\ resp' = [op |-> "http_search", cfg |-> cfg, env |-> env, script |-> script,
              out |-> http_search(cfg, env, script, jre)]
  /\ UNCHANGED <<rows, txns>>

NextHttp ==
  \/ \E cfg \in {c \in Configs : c.exists}, env \in RetryEnvs, script \in Scripts,
          jre \in JsonErrorBuilds :
       HttpSearch(cfg, env, script, jre)
  \/ Deliver

SpecHttp == Init /\ [][NextHttp]_vars

(* ------------------ the retry loop, one step at a time ---------------- *)
\* The loop of lines 213-255 as the thread runs it.  resp holds the frame of
\* the running _http_search:
\*   pc        "post" before requests.post, "wait" while it blocks, "sleep"
\*             in time.sleep, "returned" after the return statement
\*   attempt   the loop variable
\*   inflight  requests sent and not yet answered
\*   requests, answers   requests sent so far, and how each ended
\*   sleeps    the delays slept so far, in half seconds
LoopEnvs ==
  {[kind |-> "unset", n |-> 0]} \cup [kind : {"int"}, n : (0 - 1)..MaxSleeps]

LoopFrame(cfg, env, jre, pc, attempt, inflight, requests, answers, sleeps, hits, raised) ==
  [op |-> "http_loop", cfg |-> cfg, env |-> env, jre |-> jre, pc |-> pc,
   retries |-> RetriesOf(env), attempt |-> attempt, inflight |-> inflight,
   requests |-> requests, answers |-> answers, sleeps |-> sleeps,
   hits |-> hits, raised |-> raised]

\* lines 192-213: no host returns [] at once; range(retries + 1) may be empty
HttpBegin(cfg, env, jre) ==
  /\ resp = Idle
  /\ resp' = LoopFrame(cfg, env, jre,
                IF hosts_list(cfg) /\ RetriesOf(env) >= 0 THEN "post" ELSE "returned",
                0, 0, 0, <<>>, <<>>, <<>>, FALSE)
  /\ UNCHANGED <<rows, txns>>

\* line 215: requests.post is called and blocks
HttpPost ==
  /\ resp # Idle /\ resp.op = "http_loop" /\ resp.pc = "post"
  /\ resp' = [resp EXCEPT !.pc = "wait", !.inflight = @ + 1, !.requests = @ + 1]
  /\ UNCHANGED <<rows, txns>>

\* lines 223-250: the request ends as r; return, or go on to the sleep or
\* to the end of the loop
HttpAnswer(r) ==
  /\ resp # Idle /\ resp.op = "http_loop" /\ resp.pc = "wait"
  /\ LET c == Caught(r, resp.jre)
          f == [resp EXCEPT !.inflight = @ - 1, !.answers = Append(@, r)]
      IN  resp' =
            IF c = "none" THEN [f EXCEPT !.pc = "returned", !.hits = r.hits]
            ELSE IF c = "HTTPError" THEN [f EXCEPT !.pc = "returned"]
            ELSE IF c = "uncaught" THEN [f EXCEPT !.pc = "returned", !.raised = TRUE]
            ELSE IF resp.attempt < resp.retries THEN [f EXCEPT !.pc = "sleep"]
            ELSE [f EXCEPT !.pc = "returned"]
  /\ UNCHANGED <<rows, txns>>

\* line 251, then the next iteration
HttpSleep ==
  /\ resp # Idle /\ resp.op = "http_loop" /\ resp.pc = "sleep"
  /\ resp' = [resp EXCEPT !.pc = "post", !.attempt = @ + 1,
                           !.sleeps = Append(@, Backoff(resp.attempt))]
  /\ UNCHANGED <<rows, txns>>

\* the caller takes the result
HttpReturn ==
  /\ resp # Idle /\ resp.op = "http_loop" /\ resp.pc = "returned"
  /\ resp' = Idle
  /\ UNCHANGED <<rows, txns>>

NextLoop ==
  \/ \E cfg \in Configs \ {NoCfg}, env \in LoopEnvs, jre \in JsonErrorBuilds :
       HttpBegin(cfg, env, jre)
  \/ HttpPost
  \/ \E r \in Responses : HttpAnswer(r)
  \/ HttpSleep
  \/ HttpReturn

SpecLoop == Init /\ [][NextLoop]_vars

(* --------------------------- severity tiers --------------------------- *)
\* raw severities: integers, integer strings, padded and mixed-case strings,
\* every word of the vocabularies, and strings no vocabulary has
SevInts == {NumStrings[i][2] : i \in 1..Len(NumStrings)}
SevWords ==
  {NumStrings[i][1] : i \in 1..Len(NumStrings)}
  \cup VocabCritical \cup VocabHigh \cup VocabMedium \cup VocabLow
  \cup {" 12 ", " Info ", "CRITICAL", "Warn", "bogus", "", "12.5"}
SevValues == {NoSev} \cup {SevInt(n) : n \in SevInts} \cup {SevStr(w) : w \in SevWords}

ExampleSeverities == <<SevInt(12), SevInt(9), SevStr("critical"), SevStr("info"), NoSev>>
HistValues == {NoSev, SevInt(12), SevStr("70"), SevStr("warn"), SevStr("bogus")}
SeverityLists ==
  {<<v>> : v \in SevValues} \cup SeqsUpTo(HistValues, MaxSevs) \cup {ExampleSeverities}

\* alerts with the severities `sevs` are stored and the severity distribution
\* of the stored rows is computed
SeverityDistribution(sevs) ==
  /\ resp = Idle
  /\ LET stored == [i \in 1..Len(sevs) |-> db_severity(sevs[i])]
     IN  resp' = [op |-> "tiers", sevs |-> sevs, stored |-> stored,
                  tiers |-> [i \in 1..Len(sevs) |-> severity_to_tier(stored[i])],
                  direct |-> [i \in 1..Len(sevs) |-> severity_to_tier(sevs[i])],
                  dist |-> severity_level_counts(stored)]
  /\ UNCHANGED <<rows, txns>>

NextTier ==
  \/ \E sevs \in SeverityLists : SeverityDistribution(sevs)
  \/ Deliver

SpecTier == Init /\ [][NextTier]_vars

(* ----------------------- tiers of two integers ------------------------ *)
\* integer severities below, on and above both scales
TierInts == (0 - 2)..MaxSeverity

\* two integer severities are tiered
TierPair(a, b) ==
  /\ resp = Idle
  /\ resp' = [op |-> "tier_pair", a |-> a, b |-> b,
              ta |-> severity_to_tier(SevInt(a)),
              tb |-> severity_to_tier(SevInt(b))]
  /\ UNCHANGED <<rows, txns>>

NextPair ==
  \/ \E a \in TierInts, b \in TierInts : TierPair(a, b)
  \/ Deliver

SpecPair == Init /\ [][NextPair]_vars

(* ---------------------- aggregation of one list ---------------------- *)
\* an alert as the aggregation reads it.  timestamp: NoTs absent, positive a
\* well-formed ISO string (its hour), negative a string that does not parse.
\* source_index, source_ip, username: NoMsg when absent or empty.
AggAlert(ts, sev, msg, idx, ip, user) ==
  [timestamp |-> ts, severity |-> sev, message |-> msg, source_index |-> idx,
   source_ip |-> ip, username |-> user]

AggAlerts ==
  { AggAlert(1, SevStr("high"), "x", "idx1", "ip1", "u1"),
    AggAlert(1, SevInt(12), "y", "idx2", "ip2", "u1"),
    AggAlert(2, SevStr("high"), "y", NoMsg, "ip1", NoMsg),
    AggAlert(NoTs, NoSev, NoMsg, "idx1", NoMsg, "u2"),
    AggAlert(0 - 1, SevStr("bogus"), "x", "idx1", "ip2", "u2") }

\* more distinct messages than the top list keeps
ManyMessages == <<"m01", "m02", "m03", "m04", "m05", "m06", "m07", "m08", "m09", "m10", "m11", "m12", "m13", "m14", "m15", "m16", "m17", "m18", "m19", "m20", "m21", "m22">>
LongList ==
  [i \in 1..Len(ManyMessages) |->
     AggAlert(NoTs, NoSev, ManyMessages[i], NoMsg, NoMsg, NoMsg)]
LongListRepeat == Append(LongList, LongList[Len(LongList)])

AlertLists == SeqsUpTo(AggAlerts, MaxAlerts) \cup {LongList, LongListRepeat}

\* the orderings of a list: all of a short one, two of a long one
Reverse(l) == [i \in 1..Len(l) |-> l[Len(l) + 1 - i]]
Orderings(l) ==
  IF Len(l) > MaxAlerts THEN {l, Reverse(l)}
  ELSE { [i \in 1..Len(l) |-> l[f[i]]] :
           f \in {g \in [1..Len(l) -> 1..Len(l)] :
                    \A i, j \in 1..Len(l) : i # j => g[i] # g[j]} }

\* the stored timestamp of an alert and qs.order_by('-timestamp'): the
\* orders the database may return rows in
StoredOrderings(l) ==
  { p \in Orderings(l) :
      \A i \in 1..(Len(p) - 1) :
        TsDescOk(parse_es_timestamp(p[i].timestamp),
                 parse_es_timestamp(p[i + 1].timestamp)) }

\* day = dt.strftime('%Y-%m-%d') or raw_ts[:10]: two hours make a day
DayKey(raw) ==
  IF raw = NoTs THEN UnknownKey
  ELSE IF raw > NoTs THEN (raw + 1) \div 2
  ELSE 0 - (((0 - raw) + 1) \div 2)

\* a dict of counts: d[key] = d.get(key, 0) + 1 over keys[1..]
CountBy(keys) ==
  [k \in {keys[i] : i \in 1..Len(keys)} |->
     Cardinality({i \in 1..Len(keys) : keys[i] = k})]

\* the keys of a dict in insertion order: first occurrences, falsy keys
\* (`if msg:`, `if ip_val:`) left out
RECURSIVE FirstSeen(_)
FirstSeen(keys) ==
  IF keys = <<>> THEN <<>>
  ELSE LET n == Len(keys)
           before == FirstSeen(SubSeq(keys, 1, n - 1))
       IN  IF keys[n] = NoMsg \/ \E i \in 1..Len(before) : before[i] = keys[n]
           THEN before
           ELSE Append(before, keys[n])

\* equal counts in the order of the last occurrence
TopN_LastSeen(keys, cap) ==
  LET r == Reverse(keys)
      names == FirstSeen(r)
      n == Len(names)
      cnt(i) == Cardinality({j \in 1..Len(keys) : keys[j] = names[i]})
      pos(i) == 1 + Cardinality({j \in 1..n :
                     cnt(j) > cnt(i) \/ (cnt(j) = cnt(i) /\ j < i)})
      sorted == [q \in 1..n |-> LET i == CHOOSE i \in 1..n : pos(i) = q
                                IN  <<names[i], cnt(i)>>]
  IN  SubSeq(sorted, 1, Min2(n, cap))

\* sorted(d.items(), key=lambda x: x[1], reverse=True)[:cap]: a stable sort,
\* equal counts keep their insertion order
TopN(keys, cap) ==
  LET names == FirstSeen(keys)
      n == Len(names)
      cnt(i) == Cardinality({j \in 1..Len(keys) : keys[j] = names[i]})
      pos(i) == 1 + Cardinality({j \in 1..n :
                     cnt(j) > cnt(i) \/ (cnt(j) = cnt(i) /\ j < i)})
      sorted == [q \in 1..n |-> LET i == CHOOSE i \in 1..n : pos(i) = q
                                IN  <<names[i], cnt(i)>>]
  IN  SubSeq(sorted, 1, Min2(n, cap))

TopCap == 20
TopIpCap == 10
PayloadWindow == 5000

\* lines 595-634: the loop over `alerts` and top_messages
MemoryAggregates(alerts, ts_field) ==
  LET n == Len(alerts)
      idx(a) == IF a.source_index = NoMsg THEN "unknown" ELSE a.source_index
      day(a) == DayKey(get_source_field_value(a, ts_field).value)
  IN  [severity |-> CountBy([i \in 1..n |-> alerts[i].severity]),
       timeline |-> Timeline(alerts, ts_field),
       daily_trend |-> CountBy([i \in 1..n |-> day(alerts[i])]),
       source_index |-> CountBy([i \in 1..n |-> idx(alerts[i])]),
       top_messages |-> TopN([i \in 1..n |-> alerts[i].message], TopCap)]

\* lines 746-767 and 825-859 over the rows `payloads`, which the database
\* returned in that order: the tier histogram, the hourly trend of the rows
\* with a timestamp not before cutoff_trend, top IPs and top users
DbAggregates(payloads, cutoff_trend) ==
  LET window == SubSeq(payloads, 1, Min2(Len(payloads), PayloadWindow))
      ts(a) == parse_es_timestamp(a.timestamp)
      recent == SelectSeq(payloads, LAMBDA a : ts(a) # NoTs /\ ts(a) >= cutoff_trend)
  IN  [severity_distribution |->
         severity_level_counts([i \in 1..Len(payloads) |->
                                  db_severity(payloads[i].severity)]),
       alert_trend |-> CountBy([i \in 1..Len(recent) |-> ts(recent[i])]),
       top_source_ips |->
         TopN([i \in 1..Len(window) |-> window[i].source_ip], TopIpCap),
       top_users |->
         TopN([i \in 1..Len(window) |-> window[i].username], TopIpCap)]

Cutoffs == {1, 2}

\* the same alerts aggregated in two orders: as the lists `alerts` and
\* `again`, over cache rows the database returns as `payloads` and as
\* `payloads2`
AggregateTwice(alerts, again, payloads, payloads2, cutoff) ==
  /\ resp = Idle
  /\ resp' = [op |-> "aggregate_list", alerts |-> alerts, again |-> again,
              payloads |-> payloads, payloads2 |-> payloads2,
              mem |-> MemoryAggregates(alerts, "timestamp"),
              mem2 |-> MemoryAggregates(again, "timestamp"),
              db |-> DbAggregates(payloads, cutoff),
              db2 |-> DbAggregates(payloads2, cutoff)]
  /\ UNCHANGED <<rows, txns>>

NextAgg ==
  \/ \E alerts \in AlertLists, cutoff \in Cutoffs :
       \E again \in Orderings(alerts),
          payloads \in StoredOrderings(alerts), payloads2 \in StoredOrderings(alerts) :
         AggregateTwice(alerts, again, payloads, payloads2, cutoff)
  \/ Deliver

SpecAgg == Init /\ [][NextAgg]_vars

(* --------------------------- stacked trend ---------------------------- *)
\* the sum of the counts of a histogram
RECURSIVE SumCounts(_, _)
SumCounts(f, keys) ==
  IF keys = {} THEN 0
  ELSE LET k == CHOOSE x \in keys : TRUE
       IN  f[k] + SumCounts(f, keys \ {k})

\* a cached row of the tenant as the trend queries read it: the hour of its
\* timestamp (NoTs for NULL) and its stored severity
TrendRow(h, sev) == [timestamp |-> h, severity |-> sev]
TrendRows ==
  { TrendRow(1, SevStr("high")), TrendRow(1, SevStr("error")),
    TrendRow(1, SevStr("critical")), TrendRow(2, SevStr("12")),
    TrendRow(2, NoSev), TrendRow(NoTs, SevStr("high")) }
TrendTables == SeqsUpTo(TrendRows, MaxTrendRows)

\* qs.filter(timestamp__gte=cutoff_trend).exclude(timestamp__isnull=True)
RecentRows(tbl, cutoff_trend) ==
  SelectSeq(tbl, LAMBDA r : r.timestamp # NoTs /\ r.timestamp >= cutoff_trend)

\* lines 755-767: alert_trend[hour] = Count('id')
AlertTrend(tbl, cutoff_trend) ==
  LET recent == RecentRows(tbl, cutoff_trend)
  IN  CountBy([i \in 1..Len(recent) |-> recent[i].timestamp])

\* lines 770-795: the rows grouped by (hour, stored severity), each group
\* added to the (hour, tier) bucket of its tier.  The lists
\* alert_trend_series and alert_score_trend_series (lines 797-801) hold one
\* entry per key of counts_by_bucket and score_by_bucket, sorted by key.
RollUp(tbl, cutoff_trend) ==
  LET recent == RecentRows(tbl, cutoff_trend)
      groups == {<<recent[i].timestamp, recent[i].severity>> : i \in 1..Len(recent)}
      c == [g \in groups |->
              Cardinality({i \in 1..Len(recent) :
                             <<recent[i].timestamp, recent[i].severity>> = g})]
      bucketOf(g) == <<g[1], severity_to_tier(g[2])>>
      buckets == {bucketOf(g) : g \in groups}
      tier_score == [g \in groups |-> c[g] * tier_weight[bucketOf(g)[2]]]
      hours == {g[1] : g \in groups}
  IN  [alert_trend_series |->
         [b \in buckets |-> SumCounts(c, {g \in groups : bucketOf(g) = b})],
       alert_score_trend_series |->
         [b \in buckets |-> SumCounts(tier_score, {g \in groups : bucketOf(g) = b})],
       alert_score_trend |->
         [h \in hours |-> SumCounts(tier_score, {g \in groups : g[1] = h})]]

\* how far the database block (lines 657-861) got before an exception sent
\* it to the handler at line 860: not to the trend query, past the trend
\* query but not past the rollup query, or to its end
TrendStages == {"failed", "trend", "all"}
NoTrend == [x \in {} |-> 0]

\* the four trend outputs of the returned dict.  Each query is its own
\* statement (autocommit): tbl is the table the trend query read, tbl2 the
\* table the rollup query read.
StackedTrend(tbl, tbl2, cutoff_trend, stage) ==
  LET r == RollUp(tbl2, cutoff_trend)
  IN  [alert_trend |-> IF stage = "failed" THEN NoTrend
                       ELSE AlertTrend(tbl, cutoff_trend),
       alert_trend_series |-> IF stage = "all" THEN r.alert_trend_series ELSE NoTrend,
       alert_score_trend_series |->
         IF stage = "all" THEN r.alert_score_trend_series ELSE NoTrend,
       alert_score_trend |-> IF stage = "all" THEN r.alert_score_trend ELSE NoTrend]

\* the dashboard trends over the rows `tbl`, with the rows `added` committed
\* by another request between the two queries
StackedTrendOf(tbl, added, cutoff_trend, stage) ==
  /\ resp = Idle
  /\ resp' = [op |-> "stacked_trend", tbl |-> tbl, added |-> added,
              cutoff |-> cutoff_trend, stage |-> stage,
              out |-> StackedTrend(tbl, tbl \o added, cutoff_trend, stage)]
  /\ UNCHANGED <<rows, txns>>

NextTrend ==
  \/ \E tbl \in TrendTables, added \in SeqsUpTo(TrendRows, 1),
        cutoff \in Cutoffs, stage \in TrendStages :
       StackedTrendOf(tbl, added, cutoff, stage)
  \/ Deliver

SpecTrend == Init /\ [][NextTrend]_vars

(* -------------------------------- sync -------------------------------- *)
\* sync_es_alerts_to_db(tenant_id=None): all enabled tenants
NoTenant == "none"

\* what happens to one fetched document inside the loop:
\*   ok        its transaction commits
\*   db_error  IntegrityError / DatabaseError inside transaction.atomic()
\*   error     another Exception (e.g. source_data that does not serialize)
\*   notdict   the hit's _source is not an object (h.get('_source', {}) gives
\*             null): doc.get raises in the try block and again in the
\*             except clause that formats the message
Fates == {"ok", "db_error", "error", "notdict"}
Item(id, t, fate) ==
  [doc |-> [alert_id |-> id, tenant_id |-> t, timestamp |-> NoTs,
            severity |-> SevStr("high"), message |-> NoMsg],
   fate |-> fate]

\* errors[:10]
ErrorCap == 10

\* a batch whose second document fails between two that do not
MiddleFails(fate) ==
  <<Item("a1", "t1", "ok"), Item(NoId, "t1", fate), Item(NoId, "t2", "ok")>>
\* a batch that fails broadly: one document more than the error list keeps
BroadFailure == [i \in 1..(ErrorCap + 1) |-> Item(NoId, "t1", "db_error")]

SyncBatches ==
  { <<>>, <<Item("a1", "t1", "ok")>>, <<Item(NoId, "t2", "ok")>>,
    <<Item("a1", "t2", "error")>>, BroadFailure }
  \cup {MiddleFails(f) : f \in Fates}

\* what the search for a tenant gives: an exception of _http_search, or a
\* list of documents (empty when the search failed)
FetchRaised == [raised |-> TRUE, items |-> <<>>]
Fetched(items) == [raised |-> FALSE, items |-> items]
SyncFetches == {FetchRaised} \cup {Fetched(b) : b \in SyncBatches}
AllFetches ==
  {FetchRaised, Fetched(<<>>), Fetched(<<Item("a1", "t1", "ok")>>),
   Fetched(MiddleFails("db_error")), Fetched(BroadFailure)}

NoBatch(tbl) ==
  [tbl |-> tbl, inserted |-> 0, updated |-> 0, skipped |-> 0, errors |-> <<>>,
   raised |-> FALSE, done |-> 0]

\* tasks.py 178-223 (and services.py 92-122, which keeps no counters): the
\* loop over the documents from the i-th on.  `t` is the tenant the rows are
\* written for, NoTenant to take it from each document.
RECURSIVE BatchLoop(_, _, _, _)
BatchLoop(t, items, i, acc) ==
  IF i > Len(items) \/ acc.raised THEN acc
  ELSE LET it == items[i]
           doc == IF t = NoTenant THEN it.doc ELSE [it.doc EXCEPT !.tenant_id = t]
           new == UpsertOne(acc.tbl, doc)
           created == Len(new) > Len(acc.tbl)
           msg == [kind |-> it.fate, alert_id |-> it.doc.alert_id,
                   tenant_id |-> it.doc.tenant_id]
       IN  BatchLoop(t, items, i + 1,
             IF it.fate = "notdict"
             THEN [acc EXCEPT !.raised = TRUE]
             ELSE IF it.fate = "ok"
             THEN [acc EXCEPT !.tbl = new, !.done = @ + 1,
                              !.inserted = IF created THEN @ + 1 ELSE @,
                              !.updated = IF created THEN @ ELSE @ + 1]
             ELSE [acc EXCEPT !.skipped = @ + 1, !.done = @ + 1,
                              !.errors = Append(@, msg)])

\* the result of one call: the returned dict, whether an exception left the
\* call instead, the table it leaves, and the tenants it ran for in order
SyncResult(source, fetched, b, errors, per_tenant, synced) ==
  [source |-> source, fetched |-> fetched, inserted |-> b.inserted,
   updated |-> b.updated, skipped |-> b.skipped, errors |-> errors,
   per_tenant |-> per_tenant, raised |-> b.raised, tbl |-> b.tbl,
   synced |-> synced]

NoPerTenant == [t \in {} |-> 0]

\* `fetched` counting the documents written
sync_one_CountWritten(tbl, t, cfg, force_config, env_host, fetch) ==
  LET use_cfg == cfg.exists /\ (cfg.enabled \/ force_config)
      source == IF use_cfg THEN "es-http(cfg)" ELSE "es-http(env)"
      docs == IF use_cfg
              THEN (IF hosts_list(cfg) THEN fetch.items ELSE <<>>)
              ELSE (IF env_host THEN fetch.items ELSE <<>>)
      b == BatchLoop(t, docs, 1, NoBatch(tbl))
  IN  IF use_cfg /\ hosts_list(cfg) /\ fetch.raised
      THEN SyncResult(source, 0, [NoBatch(tbl) EXCEPT !.raised = TRUE], <<>>,
                      NoPerTenant, <<t>>)
      ELSE IF docs = <<>>
      THEN SyncResult(source, 0, NoBatch(tbl), <<>>, NoPerTenant, <<t>>)
      ELSE SyncResult(source, b.inserted + b.updated, b,
                      SubSeq(b.errors, 1, Min2(Len(b.errors), ErrorCap)),
                      NoPerTenant, <<t>>)

\* lines 169-241: one tenant (or, with t = NoTenant, every document the
\* environment's source returns).  env_host: ES_HOST is set.
sync_one(tbl, t, cfg, force_config, env_host, fetch) ==
  LET use_cfg == cfg.exists /\ (cfg.enabled \/ force_config)
      source == IF use_cfg THEN "es-http(cfg)" ELSE "es-http(env)"
      docs == IF use_cfg
              THEN (IF hosts_list(cfg) THEN fetch.items ELSE <<>>)
              ELSE (IF env_host THEN fetch.items ELSE <<>>)
      b == BatchLoop(t, docs, 1, NoBatch(tbl))
  IN  IF use_cfg /\ hosts_list(cfg) /\ fetch.raised
      THEN SyncResult(source, 0, [NoBatch(tbl) EXCEPT !.raised = TRUE], <<>>,
                      NoPerTenant, <<t>>)
      ELSE IF docs = <<>>
      THEN SyncResult(source, 0, NoBatch(tbl), <<>>, NoPerTenant, <<t>>)
      ELSE SyncResult(source, Len(docs), b,
                      SubSeq(b.errors, 1, Min2(Len(b.errors), ErrorCap)),
                      NoPerTenant, <<t>>)

\* lines 134-143: the enabled tenants `order[k..]` one after the other, the
\* counters summed and the error lists concatenated
RECURSIVE SyncTenants(_, _, _, _, _, _)
SyncTenants(order, k, cfgs, force_config, fetches, acc) ==
  IF k > Len(order) \/ acc.raised THEN acc
  ELSE LET tid == order[k]
           r == sync_one(acc.tbl, tid, cfgs[tid], force_config, FALSE, fetches[tid])
       IN  SyncTenants(order, k + 1, cfgs, force_config, fetches,
             [source |-> "multi-tenant(cfg)",
              fetched |-> acc.fetched + r.fetched,
              inserted |-> acc.inserted + r.inserted,
              updated |-> acc.updated + r.updated,
              skipped |-> acc.skipped + r.skipped,
              errors |-> acc.errors \o r.errors,
              per_tenant |-> [x \in DOMAIN acc.per_tenant \cup {tid} |->
                               IF x = tid THEN [r EXCEPT !.tbl = <<>>]
                               ELSE acc.per_tenant[x]],
              raised |-> r.raised, tbl |-> r.tbl,
              synced |-> Append(acc.synced, tid)])

\* lines 123-151: no tenant given.  `order` lists the tenants as the
\* configuration query returns them, list_fails: that query raised.
sync_all(tbl, cfgs, order, force_config, env_host, fetches, list_fails) ==
  LET enabled_tenants ==
        IF list_fails THEN <<>>
        ELSE SelectSeq(order, LAMBDA t : cfgs[t].exists /\ cfgs[t].enabled)
  IN  IF enabled_tenants # <<>>
      THEN SyncTenants(enabled_tenants, 1, cfgs, force_config, fetches,
             SyncResult("multi-tenant(cfg)", 0, NoBatch(tbl), <<>>, NoPerTenant, <<>>))
      ELSE sync_one(tbl, NoTenant, NoCfg, force_config, env_host, fetches[order[1]])

\* the result without the table
Returned(r) == [r EXCEPT !.tbl = <<>>]

\* AlertSyncView.post / the sync_es_alerts command for one tenant
SyncTenant(t, cfg, force_config, env_host, fetch) ==
  /\ resp = Idle
  /\ LET r == sync_one(rows, t, cfg, force_config, env_host, fetch)
     IN  /\ Len(r.tbl) <= MaxRows
         /\ rows' = r.tbl
         /\ resp' = [op |-> "sync", tenant |-> t,
                     cfgs |-> [x \in {t} |-> cfg], before |-> rows,
                     listed |-> TRUE, result |-> Returned(r)]
  /\ UNCHANGED txns

TenantOrders == {<<"t1", "t2">>, <<"t2", "t1">>}

\* the same with no tenant.  force_config is of no effect here: an iterated
\* tenant is enabled, and the fallback finds no configuration for None
SyncAll(cfgs, order, env_host, fetches, list_fails) ==
  /\ resp = Idle
  /\ LET r == sync_all(rows, cfgs, order, FALSE, env_host, fetches, list_fails)
     IN  /\ Len(r.tbl) <= MaxRows
         /\ rows' = r.tbl
         /\ resp' = [op |-> "sync", tenant |-> NoTenant, cfgs |-> cfgs,
                     before |-> rows, listed |-> ~list_fails,
                     result |-> Returned(r)]
  /\ UNCHANGED txns

\* _upsert_docs_to_db(docs) on a batch of hits
UpsertBatch(items) ==
  /\ resp = Idle
  /\ LET b == BatchLoop(NoTenant, items, 1, NoBatch(rows))
     IN  /\ Len(b.tbl) <= MaxRows
         /\ rows' = b.tbl
         /\ resp' = [op |-> "upsert_batch", items |-> items, before |-> rows,
                     raised |-> b.raised, done |-> b.done]
  /\ UNCHANGED txns

NextSync ==
  \/ \E t \in Tenants, cfg \in Configs, f \in BOOLEAN, e \in BOOLEAN,
        fetch \in SyncFetches :
       SyncTenant(t, cfg, f, e, fetch)
  \/ \E cfgs \in [Tenants -> Configs], order \in TenantOrders, e \in BOOLEAN,
        fetches \in [Tenants -> AllFetches], lf \in BOOLEAN :
       SyncAll(cfgs, order, e, fetches, lf)
  \/ \E items \in SyncBatches : UpsertBatch(items)
  \/ Deliver

SpecSync == Init /\ [][NextSync]_vars

(* ------------------------ documents in full --------------------------- *)
\* the raw 'timestamp' of a document: absent, an ISO string with a zone
\* designator ('Z' or an offset), an ISO string without one, or anything
\* datetime.fromisoformat rejects (free text, epoch milliseconds).  `at` is
\* the hour the string reads.
StampNone == [kind |-> "none", at |-> 0]
StampAware(n) == [kind |-> "aware", at |-> n]
StampNaive(n) == [kind |-> "naive", at |-> n]
StampBad == [kind |-> "bad", at |-> 0]

\* settings.TIME_ZONE as hours east of UTC; the settings module is not part
\* of this package, so both a UTC and a non-UTC deployment are possible
ZoneOffsets == {0, 1}

\* services.py 40-54, then the save of the DateTimeField: the instant stored.
\* A naive datetime is taken as local time of the deployment.
services_parse_es_timestamp(v, zone) ==
  IF v.kind = "aware" THEN v.at
  ELSE IF v.kind = "naive" THEN v.at - zone
  ELSE NoTs

\* tasks.py 26-41: a naive datetime is given tzinfo UTC
tasks_parse_es_timestamp(v, zone) ==
  IF v.kind \in {"aware", "naive"} THEN v.at ELSE NoTs

\* the raw 'status' of a document: null, '', an integer, a non-integral
\* number (n is its integer part), a string, or a list
StatusNull == [kind |-> "null", n |-> 0, s |-> ""]
StatusInt(n) == [kind |-> "int", n |-> n, s |-> ""]
StatusFloat(n) == [kind |-> "float", n |-> n, s |-> ""]
StatusStr(s) == [kind |-> "str", n |-> 0, s |-> s]
StatusList == [kind |-> "list", n |-> 0, s |-> ""]

\* IntegerField is a 32-bit column.  A Python int is unbounded: `wide` marks
\* a value above MaxInt32, whose size plays no further part.
MaxInt32 == 2147483647
NoInt == [some |-> FALSE, n |-> 0, wide |-> FALSE]
SomeInt(n) == [some |-> TRUE, n |-> n, wide |-> FALSE]
WideInt == [some |-> TRUE, n |-> MaxInt32, wide |-> TRUE]

\* int(s) for the status strings of the model; NoInt where it raises
StatusTexts ==
  << <<"", NoInt>>, <<"5", SomeInt(5)>>, <<" 7 ", SomeInt(7)>>,
     <<"open", NoInt>>, <<"3.7", NoInt>>, <<"2147483648", WideInt>> >>

\* _coerce_int (services.py 57-63, tasks.py 44-50): int(value), None when
\* the value is None or '' or int() raises; int() truncates a float
coerce_int(v) ==
  IF v.kind \in {"null", "list"} THEN NoInt
  ELSE IF v.kind \in {"int", "float"} THEN SomeInt(v.n)
  ELSE StatusTexts[CHOOSE i \in 1..Len(StatusTexts) : StatusTexts[i][1] = v.s][2]

FullDoc(id, t, ts, st, sev) ==
  [alert_id |-> id, tenant_id |-> t, timestamp |-> ts, status |-> st,
   severity |-> sev, message |-> NoMsg]

\* services.py 94-107: the row _upsert_docs_to_db writes for a document
services_defaults(doc, zone) ==
  [alert_id |-> doc.alert_id,
   tenant_id |-> doc.tenant_id,
   timestamp |-> services_parse_es_timestamp(doc.timestamp, zone),
   severity |-> db_severity(doc.severity),
   message |-> doc.message,
   status |-> coerce_int(doc.status),
   source_data |-> doc]

\* tasks.py 180-195: the row sync_es_alerts_to_db(tenant_id=t) writes
tasks_defaults(doc, t, zone) ==
  [alert_id |-> doc.alert_id,
   tenant_id |-> IF t = NoTenant THEN doc.tenant_id ELSE t,
   timestamp |-> tasks_parse_es_timestamp(doc.timestamp, zone),
   severity |-> db_severity(doc.severity),
   message |-> doc.message,
   status |-> coerce_int(doc.status),
   source_data |-> doc]

\* the database rejects the row: an integer out of the column's range
RowRejected(row) == row.status.wide

\* services.py 92-122 for full documents: a rejected row is logged and skipped
RECURSIVE StoreFrom(_, _, _, _)
StoreFrom(tbl, docs, zone, i) ==
  IF i > Len(docs) THEN tbl
  ELSE LET row == services_defaults(docs[i], zone)
       IN  StoreFrom(IF RowRejected(row) THEN tbl ELSE PutRow(tbl, row),
                     docs, zone, i + 1)

\* documents a tenant's search may return: well-formed, malformed in the
\* timestamp, malformed in the status
CompareDocs ==
  { FullDoc(id, t, ts, st, SevStr("high")) :
      id \in {"a1", NoId}, t \in Tenants,
      ts \in {StampNone, StampAware(2), StampNaive(2), StampBad},
      st \in {StatusNull, StatusInt(1), StatusStr("open"), StatusFloat(3)} }
StoreDocs ==
  { FullDoc("a1", "t1", StampAware(2), StatusInt(1), SevStr("high")),
    FullDoc(NoId, "t1", StampBad, StatusInt(1), SevStr("high")),
    FullDoc("a1", "t1", StampBad, StatusStr("open"), SevInt(12)),
    FullDoc(NoId, "t1", StampAware(2), StatusList, SevStr("high")),
    FullDoc(NoId, "t1", StampAware(2), StatusStr("3.7"), SevStr("high")),
    FullDoc(NoId, "t1", StampAware(2), StatusStr(" 7 "), SevStr("high")),
    FullDoc(NoId, "t1", StampAware(2), StatusFloat(3), SevStr("high")),
    FullDoc(NoId, "t1", StampAware(2), StatusStr("2147483648"), SevStr("high")) }

\* one fetched document, written by the retrieval path and by the sync of
\* tenant t
WriteRows(doc, t, zone) ==
  /\ resp = Idle
  /\ resp' = [op |-> "write_rows", doc |-> doc, tenant |-> t, zone |-> zone,
              by_retrieval |-> services_defaults(doc, zone),
              by_sync |-> tasks_defaults(doc, t, zone)]
  /\ UNCHANGED <<rows, txns>>

\* lines 539-545 / 554-561: the hits of a search are upserted and returned
StoreHits(docs, zone) ==
  /\ resp = Idle
  /\ Len(StoreFrom(rows, docs, zone, 1)) <= MaxRows
  /\ rows' = StoreFrom(rows, docs, zone, 1)
  /\ resp' = [op |-> "store_hits", docs |-> docs, zone |-> zone,
              before |-> rows, alerts |-> docs]
  /\ UNCHANGED txns

NextDoc ==
  \/ \E doc \in CompareDocs, t \in Tenants \cup {NoTenant}, zone \in ZoneOffsets :
       WriteRows(doc, t, zone)
  \/ \E doc \in StoreDocs, zone \in ZoneOffsets : StoreHits(<<doc>>, zone)
  \/ Deliver

SpecDoc == Init /\ [][NextDoc]_vars

(* --------------------- retrieve, aggregate and sync ------------------- *)
\* the three entry points on one cache
NextSys ==
  \/ \E t \in Tenants, stored \in Configs,
        m \in BOOLEAN, e \in BOOLEAN, d \in BOOLEAN :
       AlertListView_get(t, stored, m, e, d)
  \/ \E t \in Tenants, stored \in Configs,
        m \in BOOLEAN, e \in BOOLEAN, d \in BOOLEAN :
       AlertDashboardView_get(t, stored, m, e, d)
  \/ \E t \in Tenants, cfg \in Configs, f \in BOOLEAN, e \in BOOLEAN,
        fetch \in SyncFetches :
       SyncTenant(t, cfg, f, e, fetch)
  \/ \E cfgs \in [Tenants -> Configs], order \in TenantOrders, e \in BOOLEAN,
        fetches \in [Tenants -> AllFetches], lf \in BOOLEAN :
       SyncAll(cfgs, order, e, fetches, lf)
  \/ Deliver

SpecSys == Init /\ [][NextSys]_vars

(* --------------------------- the sort field --------------------------- *)
\* properties an index mapping may declare: candidates as dates, candidates
\* as text with a keyword sub-field, candidates that are neither, and a field
\* that is no candidate
SortProps ==
  { Prop("timestamp", "date", FALSE), Prop("timestamp", "text", TRUE),
    Prop("@timestamp", "date", FALSE), Prop("@timestamp", "text", TRUE),
    Prop("time", "date", FALSE), Prop("event_time", "text", FALSE),
    Prop("message", "text", TRUE) }

\* mappings: the properties of a JSON object in document order, no name twice
SortMappings ==
  { q \in SeqsUpTo(SortProps, MaxProps) :
      \A i, j \in 1..Len(q) : i # j => q[i].name # q[j].name }

\* _detect_timestamp_field and _resolve_timestamp_sort_field on one mapping,
\* as list_alerts_for_tenant calls them (lines 525-527)
ResolveSort(props) ==
  /\ resp = Idle
  /\ LET body == [wellformed |-> TRUE, props |-> props]
         detected == detect_timestamp_field(TRUE, FALSE, body)
     IN  resp' = [op |-> "resolve_sort", props |-> props, detected |-> detected,
                  sort |-> resolve_timestamp_sort_field(TRUE, detected, FALSE, body)]
  /\ UNCHANGED <<rows, txns>>

NextSort ==
  \/ \E props \in SortMappings : ResolveSort(props)
  \/ Deliver

SpecSort == Init /\ [][NextSort]_vars

(* ------------------------- the version decision ---------------------- *)
\* lines 500-531 for a config that passed line 498: the probes run against
\* the first host and fix which transport is attempted first
VersionDecision(cfg, answer, lib) ==
  /\ resp = Idle
  /\ resp' = [op |-> "probe", cfg |-> cfg, answer |-> answer, lib |-> lib,
              ver |-> Probe(hosts_list(cfg), answer, lib.present, lib),
              first |-> FirstTransport(Probe(hosts_list(cfg), answer,
                                             lib.present, lib))]
  /\ UNCHANGED <<rows, txns>>

NextVer ==
  \/ \E cfg \in {c \in Configs : c.exists}, answer \in ServerAnswers,
        lib \in ClientLibs : VersionDecision(cfg, answer, lib)
  \/ Deliver

SpecVer == Init /\ [][NextVer]_vars

(* ------------------------ concurrent upserts -------------------------- *)
\* two payloads that differ in every tracked field the model carries
ConcIds == {"a1", "a2"}
ConcDocs ==
  { [alert_id |-> id, tenant_id |-> "t1", timestamp |-> NoTs,
     severity |-> SevStr(p[1]), message |-> p[2]]
      : id \in ConcIds, p \in {<<"high", "x">>, <<"low", "y">>} }

\* workers whose transaction found no row and is about to insert
PendingInserts == {w \in Workers : txns[w].pc = "found" /\ txns[w].existing = 0}
Committed == {w \in Workers : txns[w].pc = "done"}

\* lines 108-110 (tasks.py 197-199): the transaction starts and looks the
\* newest row with the document's alert_id up among the committed rows
TxnLookup(w, doc) ==
  /\ txns[w].pc = "idle"
  /\ LET existing == {i \in 1..Len(rows) : rows[i].alert_id = doc.alert_id}
         found == IF doc.alert_id # NoId /\ existing # {} THEN SetMax(existing) ELSE 0
     IN  /\ found = 0 => Len(rows) + Cardinality(PendingInserts) < MaxRows
         /\ txns' = [txns EXCEPT ![w] = [pc |-> "found", doc |-> doc, existing |-> found]]
  /\ UNCHANGED <<rows, resp>>

\* lines 111-118 (tasks.py 200-210): existing.save(update_fields=...) or
\* Alert.objects.create(...), and the transaction commits
TxnWrite(w) ==
  /\ txns[w].pc = "found"
  /\ rows' = IF txns[w].existing # 0
             THEN [rows EXCEPT ![txns[w].existing] = RowOf(txns[w].doc)]
             ELSE Append(rows, RowOf(txns[w].doc))
  /\ txns' = [txns EXCEPT ![w] = [pc |-> "done", doc |-> txns[w].doc, ok |-> TRUE,
                                  at |-> Cardinality(Committed) + 1]]
  /\ UNCHANGED resp

\* lines 119-122: the transaction raises and is rolled back; the error is
\* logged and swallowed
TxnFail(w) ==
  /\ txns[w].pc = "found"
  /\ txns' = [txns EXCEPT ![w] = [pc |-> "done", doc |-> txns[w].doc, ok |-> FALSE,
                                  at |-> Cardinality(Committed) + 1]]
  /\ UNCHANGED <<rows, resp>>

\* both requests go on to their next document
TxnNext ==
  /\ Committed = Workers
  /\ txns' = [w \in Workers |-> NoTxn]
  /\ UNCHANGED <<rows, resp>>

NextConc ==
  \/ \E w \in Workers, doc \in ConcDocs : TxnLookup(w, doc)
  \/ \E w \in Workers : TxnWrite(w)
  \/ \E w \in Workers : TxnFail(w)
  \/ TxnNext

SpecConc == Init /\ [][NextConc]_vars

(* ------------------------------- claims ------------------------------- *)
IsRetrieve == resp.op = "retrieve"
IsAggregate == resp.op = "aggregate"
NoFlags == ~resp.force_mock /\ ~resp.force_db /\ ~resp.force_es
LiveSources == {"es", "es-http"}

\* s is exactly the records of `all` whose tenant is t, in the order of `all`
IsFilteredBy(s, all, t) ==
  LET idx == {i \in 1..Len(all) : all[i].tenant_id = t}
      kth(k) == CHOOSE i \in idx : Cardinality({j \in idx : j <= i}) = k
  IN  /\ Len(s) = Cardinality(idx)
      /\ \A k \in 1..Len(s) : s[k] = all[kth(k)]

\* C1: a retrieve with force_cache_only (force_db) and without force_static
\* sends no request of any kind to the live source and returns provenance
\* cache ('db') without raising, also when the cache is empty or its read fails.
C1_CacheOnlyNeverLive ==
  (IsRetrieve /\ resp.force_db /\ ~resp.force_mock)
    => /\ ~resp.out.raised
       /\ resp.out.calls = {}
       /\ resp.out.source = "db"

\* C1 witness: force_db together with force_es, an enabled config with hosts,
\* the cache read failing: the answer is still ([], 'db')
C1_Witness ==
  /\ IsRetrieve /\ resp.force_db /\ ~resp.force_mock /\ resp.force_es
  /\ resp.stored.exists /\ resp.stored.enabled /\ resp.stored.hosts
  /\ resp.out.cache = "failed"
  /\ resp.out.alerts = <<>> /\ resp.out.source = "db"

\* C2: the dashboard aggregate of a request with force_cache_only or
\* force_static, for a tenant that has a source configuration, sends no request
\* to the live source.
C2_AggregateNeverLive ==
  (IsAggregate /\ (resp.force_db \/ resp.force_mock) /\ resp.stored.exists)
    => resp.agg.calls = {}

\* C3: retrieve returns a (list, provenance) pair and never raises, whatever
\* the flags and whatever fails among the collaborators.
C3_RetrieveNeverRaises ==
  IsRetrieve => ~resp.out.raised

\* C4: the dashboard aggregate never raises, in particular not for a tenant
\* with no source configuration whose resolved alert list is non-empty.
C4_AggregateNeverRaises ==
  (IsAggregate /\ ~resp.stored.exists) => ~resp.agg.raised

\* the live path of the request produced no document: no config seen, config
\* not enabled, both transports failed, or a transport answered with zero hits
LiveYieldedNothing ==
  \/ ~LiveAllowed(resp.out.cfg, FALSE)
  \/ /\ resp.out.native \in {"notried", "nobuild", "raised"}
     /\ resp.out.http \in {"nohosts", "failed", "empty"}
  \/ resp.out.native = "ok" /\ resp.out.fetched = <<>>

\* C5: with no force flag and an empty cache for the tenant (the cache read
\* found no row), whenever the live path yields no documents the result is
\* exactly the tenant's static fallback records with provenance
\* static-fallback ('mock').
C5_NothingLiveGivesStatic ==
  (IsRetrieve /\ NoFlags /\ resp.had = 0 /\ resp.out.cache = "ok"
     /\ LiveYieldedNothing)
    => /\ resp.out.source = "mock"
       /\ IsFilteredBy(resp.out.alerts, MockAlerts, resp.tenant)

\* C6 as stated: with no force flag, if the cache holds at least one row of the
\* tenant, retrieve returns cached rows with provenance cache and makes no call
\* to the live source and no cache write, whatever the config.
C6_WarmCacheAnswers_Original ==
  (IsRetrieve /\ NoFlags /\ resp.had > 0)
    => /\ resp.out.source = "db"
       /\ resp.out.alerts # <<>>
       /\ resp.out.calls = {}
       /\ ~resp.out.upsert /\ ~resp.changed

\* C6 amended: with no force flag, if the cache read succeeds and the cache
\* holds at least one row of the tenant, retrieve returns the tenant's cached
\* rows with provenance cache, no call to the live source and no cache write.
C6_WarmCacheAnswers ==
  (IsRetrieve /\ NoFlags /\ resp.had > 0 /\ resp.out.cache = "ok")
    => /\ ~resp.out.raised
       /\ resp.out.source = "db"
       /\ Len(resp.out.alerts) = Min2(resp.had, CacheLimit)
       /\ \A i \in 1..Len(resp.out.alerts) :
            \E r \in TenantRows(rows, resp.tenant) :
              resp.out.alerts[i] = serialize_alert_row(rows[r])
       /\ resp.out.calls = {}
       /\ ~resp.out.upsert /\ ~resp.changed

\* C6 witness: a warm cache and an enabled config with hosts, answered from
\* the cache
C6_Witness ==
  /\ IsRetrieve /\ NoFlags /\ resp.had > 0 /\ resp.out.cache = "ok"
  /\ resp.stored.exists /\ resp.stored.enabled /\ resp.stored.hosts
  /\ resp.out.source = "db" /\ resp.out.alerts # <<>>

\* C7: a retrieve with force_static (force_mock) returns exactly the static
\* records of the requested tenant, in their static order, with provenance
\* static-fallback, and reads no cache, writes no cache and sends no request.
C7_StaticOnly ==
  (IsRetrieve /\ resp.force_mock)
    => /\ ~resp.out.raised
       /\ resp.out.source = "mock"
       /\ IsFilteredBy(resp.out.alerts, MockAlerts, resp.tenant)
       /\ resp.out.cache = "notread"
       /\ ~resp.out.upsert /\ ~resp.changed
       /\ resp.out.calls = {}

\* C7 witness: force_static for a tenant with a warm cache and an enabled
\* config, answered with its two static records
C7_Witness ==
  /\ IsRetrieve /\ resp.force_mock /\ resp.tenant = "t1" /\ resp.had > 0
  /\ resp.stored.exists /\ resp.stored.enabled /\ resp.stored.hosts
  /\ Len(resp.out.alerts) = 2 /\ resp.out.source = "mock"

\* C8: the flags are taken in strict priority for all eight combinations:
\* force_static wins over force_cache_only and force_live, force_cache_only
\* wins over force_live, and the live source is contacted or a live result
\* returned only when neither force_static nor force_cache_only is set.
C8_FlagPriority ==
  IsRetrieve
    => /\ (resp.force_mock
             => (resp.out.source = "mock" /\ resp.out.cache = "notread"))
       /\ ((~resp.force_mock /\ resp.force_db) => resp.out.source = "db")
       /\ ((resp.out.calls # {} \/ resp.out.source \in LiveSources
              \/ resp.out.native # "notried" \/ resp.out.http # "notried")
             => (~resp.force_mock /\ ~resp.force_db))

\* C8 witness: all three flags set, an enabled config with hosts and a warm
\* cache: the answer is the static set
C8_Witness ==
  /\ IsRetrieve /\ resp.force_mock /\ resp.force_db /\ resp.force_es
  /\ resp.stored.exists /\ resp.stored.enabled /\ resp.stored.hosts
  /\ resp.had > 0 /\ resp.out.source = "mock"

\* C9: with the cache empty for the tenant and the config enabled, when the
\* native transport raises and the HTTP transport returns k >= 1 hits (and no
\* write fails), retrieve returns exactly those k documents with provenance
\* live-http ('es-http') and afterwards the cache holds a row for each of the
\* k documents under that tenant.
C9_HttpHitsCachedForTenant ==
  (IsRetrieve /\ resp.had = 0 /\ resp.stored.enabled
     /\ resp.out.native = "raised" /\ resp.out.http = "ok"
     /\ resp.out.wfail = {})
    => /\ ~resp.out.raised
       /\ resp.out.source = "es-http"
       /\ resp.out.alerts = resp.out.fetched
       /\ Len(resp.out.alerts) >= 1
       /\ \A i \in 1..Len(resp.out.alerts) :
            \E r \in TenantRows(rows, resp.tenant) :
              rows[r].alert_id = resp.out.alerts[i].alert_id

\* C10: if a live fetch succeeds and the cache upsert then fails for some or
\* all documents, retrieve still returns the complete fetched list with the
\* provenance of the transport that fetched it, and raises nothing.
C10_UpsertFailureSwallowed ==
  (IsRetrieve /\ resp.out.upsert /\ resp.out.wfail # {})
    => /\ ~resp.out.raised
       /\ resp.out.alerts = resp.out.fetched
       /\ resp.out.wfail \subseteq 1..Len(resp.out.alerts)
       /\ resp.out.source \in LiveSources
       /\ (resp.out.native = "ok" => resp.out.source = "es")
       /\ (resp.out.http = "ok" => resp.out.source = "es-http")

\* C10 witness: an HTTP fetch whose every write failed: the hits are returned
\* and the table is untouched
C10_Witness ==
  /\ IsRetrieve /\ resp.out.upsert /\ resp.out.wfail # {}
  /\ resp.out.source = "es-http" /\ Len(resp.out.alerts) >= 1
  /\ ~resp.changed

IsUpsert == resp.op = "upsert"
RowsWithId(id) == {i \in 1..Len(rows) : rows[i].alert_id = id}

\* C11: when one upsert call writes two documents with the same non-null
\* external identifier one after the other, the cache afterwards holds exactly
\* one row for that identifier and every tracked field of it is the value
\* mapped from the later document (a field the later document lacks is null).
C11_SecondPayloadReplaces ==
  IsUpsert =>
    \A i, j \in 1..Len(resp.docs) :
      (/\ i < j
       /\ resp.docs[i].alert_id # NoId
       /\ resp.docs[i].alert_id = resp.docs[j].alert_id
       /\ i \notin resp.failed /\ j \notin resp.failed
       /\ \A k \in (j + 1)..Len(resp.docs) :
            resp.docs[k].alert_id # resp.docs[j].alert_id)
        => /\ Cardinality(RowsWithId(resp.docs[j].alert_id)) = 1
           /\ \A r \in RowsWithId(resp.docs[j].alert_id) :
                rows[r] = RowOf(resp.docs[j])

\* C11 witness: a1 upserted with a message and then without one; the single
\* row of a1 has a null message
C11_Witness ==
  /\ IsUpsert /\ Len(resp.docs) = 2 /\ resp.failed = {}
  /\ resp.docs[1].alert_id = "a1" /\ resp.docs[2].alert_id = "a1"
  /\ resp.docs[1].message = "x" /\ resp.docs[2].message = NoMsg
  /\ \E r \in RowsWithId("a1") : rows[r].message = NoMsg

\* C12: in every reachable state, whatever the interleaving of the upserts of
\* concurrent requests, the cache holds at most one row per non-null external
\* identifier.
C12_OneRowPerIdentifier ==
  \A i, j \in 1..Len(rows) :
    (i # j /\ rows[i].alert_id # NoId) => rows[i].alert_id # rows[j].alert_id

BothCommitted == \A w \in Workers : txns[w].pc = "done" /\ txns[w].ok
LaterWriter == CHOOSE w \in Workers : txns[w].pc = "done" /\ txns[w].at = 2

\* C13: when two concurrent upserts have both committed, upserts of different
\* identifiers each leave their own payload in their identifier's row, and
\* upserts of the same identifier leave a single row for it whose tracked
\* fields are all those of the later writer's payload.
C13_LastWriteWins ==
  BothCommitted =>
    IF txns["w1"].doc.alert_id = txns["w2"].doc.alert_id
    THEN /\ Cardinality(RowsWithId(txns["w1"].doc.alert_id)) = 1
         /\ \A r \in RowsWithId(txns["w1"].doc.alert_id) :
              rows[r] = RowOf(txns[LaterWriter].doc)
    ELSE \A w \in Workers :
           rows[SetMax(RowsWithId(txns[w].doc.alert_id))] = RowOf(txns[w].doc)

\* C14: cache writes are tenant-scoped: a retrieve on behalf of one tenant
\* leaves every cache row that belongs to another tenant exactly as it was,
\* also when a fetched document carries an identifier such a row already uses.
C14_WritesTenantScoped ==
  [][\A i \in 1..Len(rows) :
       (resp'.op = "retrieve" /\ rows[i].tenant_id # resp'.tenant)
         => (i <= Len(rows') /\ rows'[i] = rows[i])]_vars

\* C15: whichever transport the version decision puts first, when it fails
\* the other one is attempted before the static fallback is used: after a
\* failed native attempt HTTP is tried, and after a failed preferred HTTP
\* attempt the native client is tried.
C15_OtherTransportTried ==
  (IsRetrieve /\ ~resp.out.raised)
    => /\ (resp.out.native \in {"raised", "nobuild"} => resp.out.http # "notried")
       /\ ((resp.out.ver.present /\ resp.out.ver.prefer_http
              /\ resp.out.http = "failed")
             => resp.out.native # "notried")

IsProbe == resp.op = "probe"

\* C16: HTTP is attempted first in place of an available native client if and
\* only if the installed client's major version is known and strictly greater
\* than the detected server major version; in every other case the native
\* client, when the library is available, is attempted first.
C16_HttpFirstIffClientNewer ==
  (IsProbe /\ resp.lib.present)
    => /\ resp.first = "http"
            <=> (/\ resp.ver.probed
                 /\ resp.lib.major # NoVer
                 /\ resp.lib.major > resp.ver.server_major)
       /\ resp.first \in {"http", "native"}

\* C16 witness: client 9 against a server that answers 8: HTTP first
C16_Witness ==
  /\ IsProbe /\ resp.lib.present /\ resp.lib.major = 9 /\ resp.answer = 8
  /\ resp.ver.probed /\ resp.first = "http"

\* C17: when the server version detection fails, the native client is
\* attempted first whatever the installed client's major version is.
C17_DetectionFailureNativeFirst ==
  (IsProbe /\ resp.ver.probed /\ resp.answer = NoVer /\ resp.lib.present)
    => resp.first = "native"

IsHttpSearch == resp.op = "http_search"
Retryable == {"timeout", "neterr"}

\* C18: one HTTP search sends at most 1 + retries requests (3 when the retry
\* count is not configured), every request but the last one ended in a
\* timeout or a network-level error, a successful response ends the search
\* with its hits, and an HTTP 4xx/5xx response ends it at once with an empty
\* result and no exception.
C18_HttpRetryPolicy ==
  IsHttpSearch =>
    LET n == resp.out.requests
    IN  /\ (n = 0 \/ n <= 1 + resp.out.retries)
        /\ (resp.env.kind = "unset" => n <= 1 + DefaultRetries)
        /\ (resp.env.kind = "int" => resp.out.retries = resp.env.n)
        /\ \A i \in 1..(n - 1) : resp.script[i].kind \in Retryable
        /\ (n >= 1 /\ resp.script[n].kind = "ok")
              => (resp.out.hits = resp.script[n].hits /\ ~resp.out.raised)
        /\ (n >= 1 /\ resp.script[n].kind = "httperr")
              => (resp.out.hits = <<>> /\ ~resp.out.raised)

IsTiers == resp.op = "tiers"

\* the tier the stated policy gives an integer
C20_ScaleTier(n) ==
  IF n <= 15
  THEN (IF n >= 12 THEN "critical" ELSE IF n >= 9 THEN "high"
        ELSE IF n >= 6 THEN "medium" ELSE "low")
  ELSE (IF n >= 90 THEN "critical" ELSE IF n >= 70 THEN "high"
        ELSE IF n >= 40 THEN "medium" ELSE "low")

\* the tier the stated policy gives a non-numeric string, case and
\* surrounding blanks set aside
C20_WordTier(w) ==
  LET has(V) == \E v \in V : Lower(Strip(w)) = v
  IN  IF has(VocabCritical) THEN "critical"
      ELSE IF has(VocabHigh) THEN "high"
      ELSE IF has(VocabMedium) THEN "medium"
      ELSE IF has(VocabLow) THEN "low"
      ELSE "unknown"

\* C20: every raw severity gets the tier of the stated policy, whether the
\* function reads it directly or from the stored row: an integer (or a string
\* of one) by the 0-15 scale when <= 15 and by the 0-100 scale otherwise, any
\* other string by the vocabularies without regard to case, null and
\* unmatched strings unknown; and the severities [12, 9, "critical", "info",
\* None] give the histogram {critical:2, high:1, low:1, unknown:1}.
C20_TierPolicy ==
  IsTiers =>
    /\ \A i \in 1..Len(resp.sevs) :
         LET raw == resp.sevs[i]
             expected ==
               IF raw = NoSev THEN "unknown"
               ELSE IF raw.kind = "int" THEN C20_ScaleTier(raw.n)
               ELSE IF IsIntString(Strip(raw.s)) THEN C20_ScaleTier(StrToInt(Strip(raw.s)))
               ELSE C20_WordTier(raw.s)
         IN  resp.tiers[i] = expected /\ resp.direct[i] = expected
    /\ resp.sevs = ExampleSeverities
         => resp.dist = [critical |-> 2, high |-> 1, low |-> 1, unknown |-> 1]

\* C20 witness: the scenario's five severities were tiered
C20_Witness ==
  /\ IsTiers /\ resp.sevs = ExampleSeverities
  /\ resp.dist = [critical |-> 2, high |-> 1, low |-> 1, unknown |-> 1]

\* C19: in every aggregate result the counts of the severity-tier histogram
\* add up to the number of alerts of the resolved list the aggregate was
\* computed for.
C19_TierCountsSumToAlerts ==
  (resp.op = "aggregate" /\ ~resp.agg.raised) =>
    SumCounts(resp.agg.severity_distribution,
              DOMAIN resp.agg.severity_distribution) = resp.agg.n

IsTierPair == resp.op = "tier_pair"
SameScale(a, b) == (a <= 15 /\ b <= 15) \/ (a > 15 /\ b > 15)

\* C21: for integers a <= b of the same scale (both <= 15 or both > 15) the
\* tier of a is never strictly higher than the tier of b in the order
\* low < medium < high < critical.
C21_TieringMonotonic ==
  (IsTierPair /\ resp.a <= resp.b /\ SameScale(resp.a, resp.b))
    => tier_weight[resp.ta] <= tier_weight[resp.tb]

\* C21 witness: 8 and 12 on the 0-15 scale, medium below critical
C21_Witness ==
  /\ IsTierPair /\ resp.a = 8 /\ resp.b = 12
  /\ resp.ta = "medium" /\ resp.tb = "critical"

IsAggList == resp.op = "aggregate_list"

\* alerts of a list whose timestamp is absent or does not parse
Unparsable(alerts) ==
  {i \in 1..Len(alerts) : parse_es_timestamp(alerts[i].timestamp) = NoTs}

\* a trend counts every alert, the unparsable ones under 'unknown'
TrendReconciles(trend, alerts) ==
  /\ SumCounts(trend, DOMAIN trend) = Len(alerts)
  /\ Unparsable(alerts) # {}
       => /\ UnknownKey \in DOMAIN trend
          /\ trend[UnknownKey] = Cardinality(Unparsable(alerts))

\* C22: in the hourly and the daily trend every alert whose timestamp is
\* absent or cannot be parsed, an unparsable non-empty string included, is
\* counted under 'unknown', and the counts of each trend add up to the number
\* of input alerts.
C22_UnparsableUnderUnknown ==
  IsAggList => /\ TrendReconciles(resp.mem.timeline, resp.alerts)
               /\ TrendReconciles(resp.mem.daily_trend, resp.alerts)

\* the messages of a list and where each is first seen
MessagesOf(alerts) == {alerts[i].message : i \in 1..Len(alerts)} \ {NoMsg}
FirstIndex(alerts, m) ==
  CHOOSE i \in 1..Len(alerts) :
    alerts[i].message = m /\ \A j \in 1..(i - 1) : alerts[j].message # m

\* C23: the top-message list has min(20, distinct messages) entries, each a
\* message of the input with its count, in non-increasing order of count,
\* messages of equal count in the order in which they were first seen.
C23_TopMessages ==
  IsAggList =>
    LET top == resp.mem.top_messages
        a == resp.alerts
    IN  /\ Len(top) = Min2(20, Cardinality(MessagesOf(a)))
        /\ \A q \in 1..Len(top) :
             /\ top[q][1] \in MessagesOf(a)
             /\ top[q][2] = Cardinality({i \in 1..Len(a) : a[i].message = top[q][1]})
        /\ \A q \in 1..(Len(top) - 1) :
             \/ top[q][2] > top[q + 1][2]
             \/ /\ top[q][2] = top[q + 1][2]
                /\ FirstIndex(a, top[q][1]) < FirstIndex(a, top[q + 1][1])

\* C23 witness: 22 distinct messages, the last one seen twice: 20 entries,
\* the repeated message first, then the others as first seen
C23_Witness ==
  /\ IsAggList /\ resp.alerts = LongListRepeat
  /\ Len(resp.mem.top_messages) = 20
  /\ resp.mem.top_messages[1] = <<"m22", 2>>
  /\ resp.mem.top_messages[2] = <<"m01", 1>>

\* C24: two orderings of the same alerts, and of the same cache rows, give
\* the same raw severity histogram, tier histogram, hourly and daily trends,
\* source grouping, top IPs and top users; only the top messages may differ.
C24_OrderIndependent ==
  IsAggList =>
    /\ resp.mem.severity = resp.mem2.severity
    /\ resp.mem.timeline = resp.mem2.timeline
    /\ resp.mem.daily_trend = resp.mem2.daily_trend
    /\ resp.mem.source_index = resp.mem2.source_index
    /\ resp.db.severity_distribution = resp.db2.severity_distribution
    /\ resp.db.alert_trend = resp.db2.alert_trend
    /\ resp.db.top_source_ips = resp.db2.top_source_ips
    /\ resp.db.top_users = resp.db2.top_users

IsSync == resp.op = "sync"

\* C25: the error list a sync returns, for one tenant or for all, holds at
\* most 10 messages.
C25_ErrorListCapped ==
  (IsSync /\ ~resp.result.raised) => Len(resp.result.errors) <= 10

\* the tenants whose rows a request created or changed
Wrote ==
  {rows[i].tenant_id : i \in {j \in 1..Len(rows) :
                               j > Len(resp.before) \/ rows[j] # resp.before[j]}}
EnabledTenants == {t \in Tenants : resp.cfgs[t].exists /\ resp.cfgs[t].enabled}
DisabledTenants == {t \in Tenants : resp.cfgs[t].exists /\ ~resp.cfgs[t].enabled}
Times(seq, x) == Cardinality({i \in 1..Len(seq) : seq[i] = x})

RECURSIVE SumField(_, _, _)
SumField(per, keys, f) ==
  IF keys = {} THEN 0
  ELSE LET k == CHOOSE x \in keys : TRUE
       IN  per[k][f] + SumField(per, keys \ {k}, f)

\* C26: a sync with no tenant runs once for each enabled tenant and for no
\* disabled one (no row of a disabled tenant is written), its per-tenant
\* breakdown has exactly the enabled tenants, and fetched, inserted, updated
\* and skipped are the sums of the per-tenant values.
C26_AllTenantsSync ==
  (IsSync /\ resp.tenant = NoTenant /\ resp.listed /\ ~resp.result.raised) =>
    LET r == resp.result
    IN  /\ \A t \in EnabledTenants : Times(r.synced, t) = 1
        /\ \A t \in DisabledTenants : Times(r.synced, t) = 0 /\ t \notin Wrote
        /\ DOMAIN r.per_tenant = EnabledTenants
        /\ r.fetched = SumField(r.per_tenant, DOMAIN r.per_tenant, "fetched")
        /\ r.inserted = SumField(r.per_tenant, DOMAIN r.per_tenant, "inserted")
        /\ r.updated = SumField(r.per_tenant, DOMAIN r.per_tenant, "updated")
        /\ r.skipped = SumField(r.per_tenant, DOMAIN r.per_tenant, "skipped")

IsUpsertBatch == resp.op = "upsert_batch"

\* the table a batch leaves when every document that does not fail is
\* upserted, in order
RECURSIVE AllOthersUpserted(_, _, _)
AllOthersUpserted(tbl, items, i) ==
  IF i > Len(items) THEN tbl
  ELSE AllOthersUpserted(IF items[i].fate = "ok" THEN UpsertOne(tbl, items[i].doc)
                         ELSE tbl,
                         items, i + 1)

\* C27: each document of a batch is written in its own transaction: when
\* document i fails every other document is still upserted, those before it
\* stay committed, and no exception reaches the caller, in the inline upsert
\* and in the sync.
C27_FailureIsolated ==
  /\ IsUpsertBatch =>
       /\ ~resp.raised
       /\ resp.done = Len(resp.items)
       /\ rows = AllOthersUpserted(resp.before, resp.items, 1)
  /\ (IsSync /\ resp.tenant # NoTenant /\ resp.result.fetched > 0) =>
       /\ ~resp.result.raised
       /\ resp.result.inserted + resp.result.updated + resp.result.skipped
            = resp.result.fetched

\* C28: a retrieve that returns provenance cache or static-fallback, and
\* every aggregate, leaves the cache as it was, and no retrieve, aggregate or
\* sync removes a row.
C28_CacheWrittenOnlyAfterLiveFetch ==
  [][/\ (resp'.op = "retrieve" /\ resp'.out.source \in {"db", "mock"})
          => rows' = rows
     /\ resp'.op = "aggregate" => rows' = rows
     /\ Len(rows') >= Len(rows)]_vars

\* a cache read of the request failed
CacheReadFailed ==
  \/ resp.op = "retrieve" /\ resp.out.cache = "failed"
  \/ resp.op = "aggregate" /\ resp.agg.list.cache = "failed"

\* C29: once the cache holds a row of a tenant it keeps holding one whatever
\* is retrieved, aggregated or synced for any tenant, and every retrieve for
\* that tenant with no force flag returns provenance cache and sends nothing
\* to the live source (requests whose cache read fails set aside).
C29_WarmCacheStaysWarm ==
  [][\A t \in Tenants :
       (TenantRows(rows, t) # {} /\ ~CacheReadFailed')
         => /\ TenantRows(rows', t) # {}
            /\ (resp'.op = "retrieve" /\ resp'.tenant = t
                  /\ ~resp'.force_es /\ ~resp'.force_mock /\ ~resp'.force_db)
                 => (resp'.out.source = "db" /\ resp'.out.calls = {})]_vars

IsResolveSort == resp.op = "resolve_sort"

\* the place of a candidate in the priority list
Priority(name) == CHOOSE c \in 1..Len(TsCandidates) : TsCandidates[c] = name
IsCandidate(m) == \E c \in 1..Len(TsCandidates) : TsCandidates[c] = m.name

\* the candidate of highest priority among the properties `ms`
Highest(ms) == CHOOSE m \in ms : \A o \in ms : Priority(m.name) <= Priority(o.name)

\* C30: the resolved sort field comes from the candidate of highest priority
\* (timestamp, @timestamp, time, event_time) that the mapping offers as a date
\* or with a .keyword sub-field, a date candidate is taken before one that
\* only has a .keyword sub-field, and the order of the fields in the mapping
\* is of no effect.  Where the two rules pull apart (the highest candidate
\* has only a .keyword sub-field and a lower one is a date) either answer is
\* accepted.
C30_SortFieldByPriority ==
  IsResolveSort =>
    LET ms == {resp.props[i] : i \in 1..Len(resp.props)}
        dates == {m \in ms : IsCandidate(m) /\ m.type = "date"}
        keywords == {m \in ms : IsCandidate(m) /\ m.type # "date" /\ m.keyword}
        top == Highest(dates \cup keywords)
    IN  /\ ~resp.sort.raised
        /\ (dates \cup keywords = {}) => resp.sort.field = NoField
        /\ (dates \cup keywords # {} /\ top \in dates) => resp.sort.field = top.name
        /\ (dates = {} /\ keywords # {})
             => resp.sort.field = top.name \o ".keyword"
        /\ (dates # {} /\ keywords # {} /\ top \in keywords)
             => resp.sort.field \in {top.name \o ".keyword", Highest(dates).name}

\* a search request left for the live source, by either transport
QuerySent == "native" \in resp.out.calls \/ "http" \in resp.out.calls

\* C31: a retrieve that reached the mapping requests and resolved no sortable
\* timestamp field (no candidate in the mapping, or the request failed) still
\* sends the search, with size 100, the tenant filter and no sort clause, and
\* does not raise.
C31_QueryWithoutSortField ==
  (IsRetrieve /\ "mapping" \in resp.out.calls /\ resp.out.sort = NoField)
    => /\ ~resp.out.raised
       /\ QuerySent
       /\ SearchBody(resp.tenant, resp.out.sort) =
            [size |-> QuerySize, tenant_id |-> resp.tenant, sort |-> <<>>]

IsHttpLoop == resp.op = "http_loop"

\* min(0.5 * k, 2.0) seconds in half seconds
C32_Delay(k) == IF k >= 4 THEN 4 ELSE k

\* C32: in one HTTP search the k-th delay slept is min(0.5 * k, 2.0) seconds
\* and follows the k-th failed attempt; a delay is slept only between two
\* attempts (the search returns with one delay fewer than requests, so none
\* follows the final attempt or an HTTP-level error); and at most one request
\* is in flight, none while sleeping or after the return.
C32_BackoffBetweenAttempts ==
  IsHttpLoop =>
    /\ \A k \in 1..Len(resp.sleeps) :
          /\ resp.sleeps[k] = C32_Delay(k)
          /\ resp.answers[k].kind \in {"timeout", "neterr", "badjson"}
    /\ resp.inflight \in {0, 1}
    /\ resp.inflight = 1 <=> resp.pc = "wait"
    /\ resp.pc = "post" => Len(resp.sleeps) = resp.requests
    /\ resp.pc = "wait" => Len(resp.sleeps) = resp.requests - 1
    /\ resp.pc = "sleep" => Len(resp.sleeps) = resp.requests - 1
    /\ resp.pc = "returned" =>
          Len(resp.sleeps) = (IF resp.requests = 0 THEN 0 ELSE resp.requests - 1)
    /\ (resp.pc = "returned" /\ resp.requests > 0
           /\ resp.answers[resp.requests].kind = "httperr")
          => Len(resp.sleeps) = resp.requests - 1

\* C32 witness: five timeouts, each followed by its delay, the fifth delay
\* capped at two seconds, then an HTTP error ending the search with no delay
C32_Witness ==
  /\ IsHttpLoop /\ resp.pc = "returned" /\ resp.requests = 6
  /\ resp.sleeps = <<1, 2, 3, 4, 4>>
  /\ resp.answers[6].kind = "httperr"

IsStackedTrend == resp.op = "stacked_trend"

\* C33: in the trend outputs of one aggregate, every (hour, tier) bucket has
\* score = count * weight of the tier, the total score of an hour is the sum
\* of the scores of the hour's buckets, and the alert count of an hour is the
\* sum of the counts of the hour's buckets.
C33_StackedTrendReconciles ==
  IsStackedTrend =>
    LET o == resp.out
        buckets == DOMAIN o.alert_trend_series
        of(h) == {b \in buckets : b[1] = h}
    IN  /\ DOMAIN o.alert_score_trend_series = buckets
        /\ \A b \in buckets :
              o.alert_score_trend_series[b] =
                o.alert_trend_series[b]
                  * (CASE b[2] = "critical" -> 4 [] b[2] = "high" -> 3
                       [] b[2] = "medium" -> 2 [] b[2] = "low" -> 1
                       [] OTHER -> 0)
        /\ DOMAIN o.alert_score_trend = {b[1] : b \in buckets}
        /\ \A h \in DOMAIN o.alert_score_trend :
              o.alert_score_trend[h] = SumCounts(o.alert_score_trend_series, of(h))
        /\ DOMAIN o.alert_trend = {b[1] : b \in buckets}
        /\ \A h \in DOMAIN o.alert_trend :
              o.alert_trend[h] = SumCounts(o.alert_trend_series, of(h))

\* the rows of the tenant, by row id, that the returned list holds, in order
ReturnedRows(alerts, tbl, t) ==
  {o \in [1..Len(alerts) -> TenantRows(tbl, t)] :
     /\ \A i, j \in 1..Len(alerts) : i # j => o[i] # o[j]
     /\ \A i \in 1..Len(alerts) : alerts[i] = serialize_alert_row(tbl[o[i]])}

\* C34: a result with provenance cache ('db') holds at most 100 alerts, all
\* of the requested tenant; they are rows of the tenant no other row of which
\* has a greater timestamp; and they are listed most recent first, a row
\* without a timestamp after every row that has one.
C34_CacheReadMostRecentFirst ==
  (IsRetrieve /\ resp.out.source = "db" /\ resp.out.cache = "ok")
    => LET a == resp.out.alerts
       IN  /\ Len(a) = Min2(resp.had, CacheLimit)
           /\ \A i \in 1..Len(a) : a[i].tenant_id = resp.tenant
           /\ \E o \in ReturnedRows(a, rows, resp.tenant) :
                 \A r \in TenantRows(rows, resp.tenant) :
                   (\A i \in 1..Len(a) : o[i] # r)
                     => \A i \in 1..Len(a) : rows[r].timestamp <= a[i].timestamp
           /\ \A i, j \in 1..Len(a) : i < j => a[i].timestamp >= a[j].timestamp

IsWriteRows == resp.op = "write_rows"

\* C35: for every fetched document and every tenant a sync runs for, the
\* row the sync writes equals, field by field, the row the retrieval path's
\* upsert writes for the same document.
C35_SyncWritesSameRow ==
  IsWriteRows => resp.by_sync = resp.by_retrieval

\* the rows without an identifier
NullRows(tbl) == {r \in 1..Len(tbl) : tbl[r].alert_id = NoId}

\* C36: in one upsert call every document without an external identifier
\* whose write commits adds one row without identifier, equal to the row
\* mapped from it, after the rows that were there; a row that was there
\* changes only under a document that carries its identifier.  The same
\* identifier-less document upserted n times adds n rows.
C36_NullIdentifierAccumulates ==
  IsUpsert =>
    LET d == resp.docs
        ok == (1..Len(d)) \ resp.failed
        nullok == {i \in ok : d[i].alert_id = NoId}
        old == resp.before
    IN  /\ Cardinality(NullRows(rows)) = Cardinality(NullRows(old)) + Cardinality(nullok)
        /\ Len(rows) >= Len(old)
        /\ \A r \in 1..Len(old) :
              rows[r] # old[r]
                => \E i \in ok : d[i].alert_id # NoId /\ d[i].alert_id = rows[r].alert_id
        /\ \A i \in nullok :
              \E r \in (Len(old) + 1)..Len(rows) : rows[r] = RowOf(d[i])

\* C36 witness: one document without identifier upserted twice in one call
\* on an empty cache: two equal rows without identifier
C36_Witness ==
  /\ IsUpsert /\ Len(resp.docs) = 2 /\ resp.failed = {} /\ resp.before = <<>>
  /\ resp.docs[1] = resp.docs[2] /\ resp.docs[1].alert_id = NoId
  /\ Len(rows) = 2 /\ rows[1] = rows[2] /\ rows[1].alert_id = NoId

IsStoreHits == resp.op = "store_hits"

\* the raw status denotes no integer: a non-integral number, a list, or a
\* string that is not the decimal form of an integer
NotAnInteger(st) ==
  \/ st.kind \in {"float", "list"}
  \/ st.kind = "str" /\ st.s \in {"", "open", "3.7"}

\* C37: a fetched document whose timestamp does not parse or whose status
\* is not an integer is returned to the caller and has a row in the cache
\* that holds null in that field and, in every other field, the value the
\* document gave (the severity as the character column holds it).
C37_MalformedDocumentKept ==
  IsStoreHits =>
    \A i \in 1..Len(resp.docs) :
      LET d == resp.docs[i]
      IN  (d.timestamp.kind = "bad" \/ NotAnInteger(d.status))
            => /\ resp.alerts[i] = d
               /\ \E r \in 1..Len(rows) :
                     /\ rows[r].source_data = d
                     /\ rows[r].alert_id = d.alert_id
                     /\ rows[r].tenant_id = d.tenant_id
                     /\ rows[r].message = d.message
                     /\ rows[r].severity = db_severity(d.severity)
                     /\ d.timestamp.kind = "bad" => rows[r].timestamp = NoTs
                     /\ d.timestamp.kind = "aware" => rows[r].timestamp = d.timestamp.at
                     /\ NotAnInteger(d.status) => rows[r].status = NoInt
                     /\ d.status.kind = "int" => rows[r].status = SomeInt(d.status.n)

\* what the tags 'es', 'es-http' and 'mock' of a returned result stand for
LiveAndStaticTagsHold ==
  LET o == resp.out
  IN  /\ o.source \in {"db", "es", "es-http", "mock"}
      /\ o.source = "es" => (o.native = "ok" /\ o.alerts = o.fetched)
      /\ o.source = "es-http" => (o.http = "ok" /\ o.alerts = o.fetched)
      /\ o.source = "mock" => IsFilteredBy(o.alerts, MockAlerts, resp.tenant)

\* C38 as stated: the provenance tag of a returned result is one of cache
\* ('db'), live-native ('es'), live-http ('es-http') and static-fallback
\* ('mock'); 'db' only on a list read from the cache with no request sent to
\* the live source, 'es' and 'es-http' only on the hit list that transport
\* returned, 'mock' only on the static records of the tenant.
C38_ProvenanceNamesTier_Original ==
  (IsRetrieve /\ ~resp.out.raised) =>
    /\ LiveAndStaticTagsHold
    /\ resp.out.source = "db" =>
          /\ resp.out.calls = {}
          /\ resp.out.cache = "ok"
          /\ resp.out.alerts \in ReadRecent(rows, resp.tenant)

\* C38 amended: as stated, except that 'db' also tags the empty list a
\* force_cache_only retrieve returns when its cache read fails.
C38_ProvenanceNamesTier ==
  (IsRetrieve /\ ~resp.out.raised) =>
    /\ LiveAndStaticTagsHold
    /\ resp.out.source = "db" =>
          /\ resp.out.calls = {}
          /\ \/ /\ resp.out.cache = "ok"
                /\ resp.out.alerts \in ReadRecent(rows, resp.tenant)
             \/ /\ resp.out.cache = "failed" /\ resp.force_db
                /\ resp.out.alerts = <<>>

\* C38 witness: a force_cache_only retrieve for a tenant with cached rows
\* whose read fails: the empty list, tagged 'db'
C38_Witness ==
  /\ IsRetrieve /\ resp.force_db /\ ~resp.force_mock /\ ~resp.force_es
  /\ resp.had > 0 /\ resp.out.cache = "failed"
  /\ resp.out.source = "db" /\ resp.out.alerts = <<>>

\* force_live alone
ForceLiveOnly == IsRetrieve /\ resp.force_es /\ ~resp.force_mock /\ ~resp.force_db

\* the call went into the live branch: a probe or a search was sent, or a
\* transport was called
LiveAttempted ==
  \/ resp.out.calls # {}
  \/ resp.out.native # "notried"
  \/ resp.out.http # "notried"

\* the static fallback was returned and the live source left alone
StaticReturned ==
  /\ resp.out.source = "mock"
  /\ IsFilteredBy(resp.out.alerts, MockAlerts, resp.tenant)
  /\ ~LiveAttempted

\* C39 as stated: with force_live alone the cache is not read, a live fetch
\* is attempted whenever the tenant has a config, enabled or not, and without
\* a config the static fallback is returned although cached rows exist.
C39_ForceLive_Original ==
  ForceLiveOnly
    => /\ resp.out.cache = "notread"
       /\ resp.stored.exists => LiveAttempted
       /\ ~resp.stored.exists => StaticReturned

\* C39 amended: with force_live alone the cache is not read; a live fetch is
\* attempted whenever the config lookup returns a config, enabled or not;
\* when the tenant has no config or the lookup fails, the static fallback is
\* returned although cached rows exist.
C39_ForceLive ==
  ForceLiveOnly
    => /\ resp.out.cache = "notread"
       /\ resp.out.cfg \in {resp.stored, NoCfg}
       /\ resp.out.cfg.exists => LiveAttempted
       /\ ~resp.out.cfg.exists => StaticReturned

\* C39 witness: force_live, a warm cache and a disabled config with hosts:
\* the cache is not read and the search is sent
C39_Witness ==
  /\ ForceLiveOnly /\ resp.had > 0
  /\ resp.stored.exists /\ ~resp.stored.enabled /\ resp.stored.hosts
  /\ resp.out.cfg = resp.stored
  /\ resp.out.cache = "notread"
  /\ resp.out.calls \cap {"native", "http"} # {}

\* a sync for one tenant that returned its result
SingleTenantResult == IsSync /\ resp.tenant # NoTenant /\ ~resp.result.raised

\* C40: in every result of a sync for one tenant inserted + updated +
\* skipped = fetched, the rows added to the cache are the inserted ones, and
\* the error list holds one message per skipped document up to its cap of
\* ten.
C40_SyncCountsReconcile ==
  SingleTenantResult =>
    LET r == resp.result
    IN  /\ r.inserted >= 0 /\ r.updated >= 0 /\ r.skipped >= 0
        /\ r.inserted + r.updated + r.skipped = r.fetched
        /\ Len(rows) = Len(resp.before) + r.inserted
        /\ Len(r.errors) = Min2(r.skipped, ErrorCap)

\* C40 witness: three documents fetched for a tenant that has a row for a1:
\* a1 is updated, the second is skipped with one message, the third inserted
C40_Witness ==
  /\ SingleTenantResult
  /\ resp.result.fetched = 3 /\ resp.result.inserted = 1
  /\ resp.result.updated = 1 /\ resp.result.skipped = 1
  /\ Len(resp.result.errors) = 1

====
